---- MODULE Spec2Model ----
(***************************************************************************)
(* Owl Retro: the scan / plan / apply / revert pipeline of the content     *)
(* script.  The model follows                                              *)
(*   src/src/content/theme-injector.js   (applyPatchPlans, revertAllStyles)*)
(*   src/src/content/mutation-handler.js (the mutation batcher)            *)
(*   src/src/content/dom-analyzer.js     (analyzeElements, analyzeDOMChunk)*)
(*   src/src/content/content.js          (isEnabled, applyTheme,           *)
(*                                        removeTheme, handleMessage)      *)
(* The page is single-threaded: every action below is one task of the      *)
(* event loop (a synchronous run up to the next await / timer / frame),    *)
(* followed by the microtask in which the MutationObserver callback runs.  *)
(***************************************************************************)
EXTENDS Integers, Sequences, FiniteSets, TLC

(***************************************************************************)
(* The document.  document.documentElement and two elements below it, in   *)
(* document order.  The page may remove and re-insert the elements of      *)
(* Detachable.                                                             *)
(***************************************************************************)
Root == "html"
DocOrder == <<"html", "a", "b">>
Elems == {DocOrder[i] : i \in 1..Len(DocOrder)}
Detachable == {"b"}
Null == "null"

\* The color-bearing longhand properties the model tracks (two of colorProps).
Props == {"color", "background-color"}

\* An inline declaration: its value ("" = the property is not set inline)
\* and its priority.
NoDecl == [v |-> "", imp |-> FALSE]
Decl(v, imp) == IF v = "" THEN NoDecl ELSE [v |-> v, imp |-> imp]

\* The data-owl-theme attribute: "none" = the element does not carry it.
NoMark == "none"
Modes == {"light", "dark"}

\* An entry of appliedStyles: has = the WeakMap has the element; orig = the
\* stored object, property -> original inline value (Unsaved: the object has
\* no such key).
Unsaved == "unsaved"
NoSnap == [has |-> FALSE, orig |-> [p \in Props |-> Unsaved]]

ROOT_THEME == "owl-retro"
THEME_LIGHT == "owl-retro-light"
THEME_DARK == "owl-retro-dark"
MONOSPACE == "owl-font"

(***************************************************************************)
(* Bounds of the model.                                                    *)
(***************************************************************************)
\* applyPatchPlans yields when applied % 50 = 0; the model yields every
\* YIELD_EVERY applied plans.
YIELD_EVERY == 2
\* PERFORMANCE_CONFIG.MUTATION_BATCH_SIZE is 50; the model's batch size.
MUTATION_BATCH_SIZE == 2
\* Longest plan list the host passes to applyPatchPlans.
MaxPlans == 2
\* Most suspended applyPatchPlans runs (timers) at a time.
MaxTimers == 1

VARIABLES
  isEnabled,        \* content.js: let isEnabled
  classes,          \* classList of document.documentElement
  marker,           \* element -> value of its data-owl-theme attribute
  style,            \* element -> property -> inline declaration
  inDoc,            \* element -> it is connected to the document
  appliedStyles,    \* theme-injector.js: the WeakMap of original styles
  observer,         \* mutation-handler.js: Null, or the mode the observer's
                    \* callback closes over
  pendingElements,  \* mutation-handler.js: the Set, in insertion order
  scheduled,        \* mutation-handler.js: let scheduled
  rafQueue,         \* requested animation-frame callbacks, oldest first
                    \* (each the mode its closure holds)
  timers,           \* setTimeout(0) callbacks of applyPatchPlans, oldest first
  reverted,         \* history: revertAllStyles has run since the last disable
  \* One call of analyzeDOMChunk (dom-analyzer.js):
  filterOf,         \* node -> what acceptNode answers for it
  maxElements,      \* options.maxElements
  walker,           \* walker.currentNode (0: the root element)
  count,            \* let count
  processedElements,\* the WeakSet of the call
  pc,               \* where the call is
  hasMore,          \* the hasMore field of the returned object
  kindOf,           \* node -> what the element is (tag, selector, visibility)
  options,          \* options.skipProcessed, options.visibleOnly
  overBudget,       \* performance.now() - startTime > MAX_SCAN_TIME_MS
  patchPlans,       \* const patchPlans: the elements it holds a plan for
  \* One call of analyzeFullDOM (dom-analyzer.js):
  fullPc,           \* where the call is
  covered,          \* history: the nodes some chunk of the call processed
  ceilingHit,       \* the call left its loop through the total-time break
  elapsed,          \* performance.now() - startTime as the loop last read it
  chunks,           \* const chunks: the elements it holds a plan for
  \* One call of a pure function (color-utils.js, the site decision):
  call,             \* the function and its arguments
  ret,              \* what it returned
  steps,            \* history: the lightness steps ensureContrast took
  \* mutation-handler.js, SPA navigation handling:
  hooks,            \* originalPushState / originalReplaceState, the wrappers
                    \* on history.pushState / replaceState and the listeners
  hookCalls,        \* history: calls of hookHistoryNavigation so far
  entries,          \* the session history of the tab: its URLs
  index,            \* the current entry
  trace,            \* history: what the last navigation called, in order
  \* content.js, from the moment the script is loaded:
  preferences,      \* let preferences
  state,            \* let currentMode, useMonospace, currentIntensity
  initPc,           \* where the call of initialize() is
  routeTimers,      \* pending setTimeout(100) callbacks of handleRouteChange
  systemDark,       \* matchMedia('(prefers-color-scheme: dark)').matches
  \* dynamic-content-handler.js:
  batchTimeout,     \* the elements the pending timer of batchProcessElements
                    \* holds (empty: no timer pending)
  pageMutations,    \* history: mutations the page itself has made
  applyTimers,      \* pending setTimeout(100) callbacks of
                    \* handleInfiniteScrollTrigger
  \* chrome.storage.sync and the popup:
  syncStore,        \* the value of owl_preferences in chrome.storage.sync
  storageEvents,    \* onChanged events on their way to the content script:
                    \* their newValue, oldest first
  messages,         \* changeMode messages on their way: their mode
  selectedMode,     \* history: the mode of the last changeMode message the
                    \* content script handled (at first the stored mode)
  ops               \* storage.js: the calls under way, each with its
                    \* function, arguments, position and local prefs

pipeVars == <<isEnabled, classes, marker, style, inDoc, appliedStyles, observer,
              pendingElements, scheduled, rafQueue, timers, reverted>>

scanVars == <<filterOf, maxElements, walker, count, processedElements, pc, hasMore,
              kindOf, options, overBudget, patchPlans>>

fullVars == <<fullPc, covered, ceilingHit, elapsed, chunks>>

colorVars == <<call, ret, steps>>

histVars == <<hooks, hookCalls, entries, index, trace>>

contentVars == <<preferences, state, initPc, routeTimers, systemDark>>

handlerVars == <<batchTimeout, pageMutations, applyTimers>>

storageVars == <<syncStore, storageEvents, messages, selectedMode, ops>>

extVars == <<fullVars, colorVars, histVars, contentVars, handlerVars, storageVars>>

\* What the steps of one part leave alone.
exceptFull == <<pipeVars, colorVars, histVars, contentVars, handlerVars,
                storageVars>>
exceptColor == <<pipeVars, scanVars, fullVars, histVars, contentVars, handlerVars,
                storageVars>>
exceptHist == <<pipeVars, scanVars, fullVars, colorVars, contentVars, handlerVars,
                storageVars>>
exceptContent == <<style, inDoc, appliedStyles, observer, pendingElements,
                   scheduled, rafQueue, timers, reverted,
                   scanVars, fullVars, colorVars, histVars, handlerVars, storageVars>>
exceptHandler == <<fullVars, colorVars, histVars, contentVars, storageVars>>

vars == <<pipeVars, scanVars, extVars>>

(***************************************************************************)
(* Sequences and sets.                                                     *)
(***************************************************************************)
Range(s) == {s[i] : i \in 1..Len(s)}

Min(a, b) == IF a < b THEN a ELSE b

\* Array.prototype.slice(from) with a 0-based start index.
Slice(s, from) == SubSeq(s, from + 1, Len(s))

\* Set.prototype.add for each element of s in turn: insertion order kept.
RECURSIVE AddAll(_, _)
AddAll(set, s) ==
  IF s = <<>> THEN set
  ELSE AddAll(IF Head(s) \in Range(set) THEN set ELSE Append(set, Head(s)),
              Tail(s))

(***************************************************************************)
(* The DOM as the synchronous code sees and writes it: a record            *)
(*   style, marker, classes : the document                                 *)
(*   store                  : appliedStyles                                *)
(*   muts                   : the mutation records queued for the observer *)
(*                            (targets, in order), delivered in the        *)
(*                            microtask after the task                     *)
(***************************************************************************)
Dom == [style |-> style, marker |-> marker, classes |-> classes,
        store |-> appliedStyles, muts |-> <<>>]

\* observer.observe(document.documentElement, {subtree, attributes, ...}):
\* a record is queued for a connected target while an observer is connected.
Observed(e) == observer # Null /\ inDoc[e]

Record(d, e, changed) ==
  IF changed /\ Observed(e) THEN Append(d.muts, e) ELSE d.muts

\* element.style.setProperty / removeProperty for the properties of f at once
\* (f: property -> declaration).  The style attribute mutates when a
\* declaration changes.
WriteStyle(d, e, f) ==
  LET new == [p \in Props |-> IF p \in DOMAIN f THEN f[p] ELSE d.style[e][p]]
  IN [d EXCEPT !.style[e] = new, !.muts = Record(d, e, new # d.style[e])]

\* html.classList.add / remove: the class attribute is set again.
WriteClasses(d, new) ==
  [d EXCEPT !.classes = new,
            !.muts = Record(d, Root, new # {} \/ d.classes # {})]

(***************************************************************************)
(* theme-injector.js                                                       *)
(***************************************************************************)
applyThemeClass(d, mode) ==
  LET themeClass == IF mode = "dark" THEN THEME_DARK ELSE THEME_LIGHT
      d1 == WriteClasses(d, d.classes \ {THEME_LIGHT, THEME_DARK})
      d2 == WriteClasses(d1, d1.classes \cup {ROOT_THEME, themeClass})
  IN [d2 EXCEPT !.marker[Root] = mode]

removeThemeClass(d) ==
  LET d1 == WriteClasses(d, d.classes \ {ROOT_THEME, THEME_LIGHT, THEME_DARK})
  IN [d1 EXCEPT !.marker[Root] = NoMark]

applyMonospaceFont(d, enable) ==
  WriteClasses(d, IF enable THEN d.classes \cup {MONOSPACE}
                  ELSE d.classes \ {MONOSPACE})

\* if (!plan.element || !plan.styles) continue;  A plan that lacks its
\* element or its styles is modelled as one whose element is Null.
ValidPlan(plan) == plan.element # Null

\* Mutant of Snapshot: the inline value is read after the plan's value has
\* been written.
SnapshotAfterWrite(d, plan) ==
  [has |-> TRUE,
   orig |-> [p \in Props |-> IF p \in DOMAIN plan.styles
                             THEN plan.styles[p] ELSE Unsaved]]

\* The snapshot taken for a plan: plan.element.style[prop] || '' for every
\* property of the plan.
Snapshot(d, plan) ==
  [has |-> TRUE,
   orig |-> [p \in Props |-> IF p \in DOMAIN plan.styles
                             THEN d.style[plan.element][p].v ELSE Unsaved]]

\* Mutant of StoreOriginal: the has() test is missing.
StoreOriginalAlways(d, plan) ==
  [d EXCEPT !.store[plan.element] = Snapshot(d, plan)]

\* if (!appliedStyles.has(plan.element)) appliedStyles.set(...)
StoreOriginal(d, plan) ==
  IF ~d.store[plan.element].has
  THEN [d EXCEPT !.store[plan.element] = Snapshot(d, plan)]
  ELSE d

\* The body of the for loop of applyPatchPlans for one valid plan.
ApplyPlan(d, plan) ==
  LET e  == plan.element
      d1 == StoreOriginal(d, plan)
      d2 == WriteStyle(d1, e,
              [p \in DOMAIN plan.styles |-> Decl(plan.styles[p], TRUE)])
  IN [d2 EXCEPT !.marker[e] = "true"]

(***************************************************************************)
(* One synchronous run of the loop of applyPatchPlans, from plan number    *)
(* idx (1-based) with `applied` plans applied so far.  `checks` is the     *)
(* number of time-budget checks that still pass in this run (the clock is  *)
(* the environment's).  The run ends                                       *)
(*   "done"  : the list is exhausted,                                      *)
(*   "yield" : applied % YIELD_EVERY = 0, awaiting setTimeout(0),          *)
(*   "defer" : the budget check failed; plans.slice(applied) is            *)
(*             rescheduled.                                                *)
(***************************************************************************)
RECURSIVE ApplyLoop(_, _, _, _, _)
ApplyLoop(d, plans, idx, applied, checks) ==
  IF idx > Len(plans)
  THEN [dom |-> d, out |-> "done", idx |-> idx, applied |-> applied]
  ELSE IF ~ValidPlan(plans[idx])
  THEN ApplyLoop(d, plans, idx + 1, applied, checks)
  ELSE LET d1 == ApplyPlan(d, plans[idx])
           a1 == applied + 1
       IN IF a1 % YIELD_EVERY = 0
          THEN [dom |-> d1, out |-> "yield", idx |-> idx, applied |-> a1]
          ELSE IF checks = 0
          THEN [dom |-> d1, out |-> "defer", idx |-> idx, applied |-> a1]
          ELSE ApplyLoop(d1, plans, idx + 1, a1, checks - 1)

\* The run after the await of a yield: the budget check comes first.
ResumeLoop(d, plans, idx, applied, checks) ==
  IF checks = 0
  THEN [dom |-> d, out |-> "defer", idx |-> idx, applied |-> applied]
  ELSE ApplyLoop(d, plans, idx + 1, applied, checks - 1)

\* The timer a run leaves behind, if any.
TimerOf(plans, r) ==
  CASE r.out = "yield" ->
         <<[kind |-> "resume", plans |-> plans, idx |-> r.idx,
            applied |-> r.applied]>>
    [] r.out = "defer" ->
         <<[kind |-> "call", plans |-> Slice(plans, r.applied), idx |-> 0,
            applied |-> 0]>>
    [] OTHER -> <<>>

(***************************************************************************)
(* revertAllStyles                                                         *)
(***************************************************************************)
\* document.querySelectorAll('[data-owl-theme]'): a static list, in
\* document order, of the connected elements that carry the marker.
MarkedElements(d) ==
  SelectSeq(DocOrder, LAMBDA e : inDoc[e] /\ d.marker[e] # NoMark)

\* Mutant of RevertElement: the marker attribute is not removed.
RevertElementKeepsMarker(d, e) ==
  LET original == d.store[e]
      saved == {p \in Props : original.orig[p] # Unsaved}
  IN IF original.has
     THEN [WriteStyle(d, e, [p \in saved |-> Decl(original.orig[p], FALSE)])
           EXCEPT !.store[e] = NoSnap]
     ELSE d

\* The body of elements.forEach for one element.
RevertElement(d, e) ==
  LET original == d.store[e]
      saved == {p \in Props : original.orig[p] # Unsaved}
      d1 == IF original.has
            THEN [WriteStyle(d, e,
                    [p \in saved |-> Decl(original.orig[p], FALSE)])
                  EXCEPT !.store[e] = NoSnap]
            ELSE d
  IN [d1 EXCEPT !.marker[e] = NoMark]

\* Mutant of RevertEach: the list is live, so that removing the marker of
\* one element makes the iteration pass over the next one.
RECURSIVE RevertEachLive(_, _)
RevertEachLive(d, elements) ==
  IF elements = <<>> THEN d
  ELSE RevertEachLive(RevertElement(d, Head(elements)),
                      IF Len(elements) > 1 THEN Tail(Tail(elements)) ELSE <<>>)

\* Mutant of RevertEach: the iteration ends at the first element without a
\* snapshot, as it would if reading the missing snapshot threw.
RECURSIVE RevertEachThrows(_, _)
RevertEachThrows(d, elements) ==
  IF elements = <<>> \/ ~d.store[Head(elements)].has THEN d
  ELSE RevertEachThrows(RevertElement(d, Head(elements)), Tail(elements))

RECURSIVE RevertEach(_, _)
RevertEach(d, elements) ==
  IF elements = <<>> THEN d
  ELSE RevertEach(RevertElement(d, Head(elements)), Tail(elements))

revertAllStyles(d) ==
  applyMonospaceFont(removeThemeClass(RevertEach(d, MarkedElements(d))), FALSE)

(***************************************************************************)
(* dom-analyzer.js: the incremental pass                                   *)
(***************************************************************************)
\* The color the page's stylesheets give an element without inline value.
SheetColor == "black"
\* The palette color of a mode, as an opaque value.
Retro(mode) == IF mode = "dark" THEN "retro-dark" ELSE "retro-light"

\* shouldPreserveColor
shouldPreserveColor(value) == value \in {"", "transparent", "inherit", "initial"}

\* const mappedColor = mapToRetroPalette(value, mode, intensity), for the
\* opaque values of the elements here: a value that is kept is returned
\* unchanged, any other color is taken to the mode's palette color.
mappedColor(value, mode) ==
  IF shouldPreserveColor(value) THEN value ELSE Retro(mode)

\* window.getComputedStyle(element)[prop]: the inline declaration wins, else
\* the stylesheet; a disconnected element has no computed style.
Computed(d, e, p) ==
  IF ~inDoc[e] THEN ""
  ELSE IF d.style[e][p].v # "" THEN d.style[e][p].v ELSE SheetColor

\* createPatchPlan: the properties whose mapped value differs; <<>> for null.
createPatchPlan(d, e, mode) ==
  LET changed == {p \in Props :
                    /\ ~shouldPreserveColor(Computed(d, e, p))
                    /\ mappedColor(Computed(d, e, p), mode) # Computed(d, e, p)}
  IN IF changed = {} THEN <<>>
     ELSE <<[element |-> e,
             styles |-> [p \in changed |-> mappedColor(Computed(d, e, p), mode)]]>>

\* element.matches(SKIP_SELECTORS): of the selectors only [data-owl-theme]
\* applies to the elements of the model.
MatchesSkip(d, e) == d.marker[e] # NoMark

\* element.querySelectorAll('*'): the descendants, in document order.
Descendants(e) ==
  IF e = Root THEN SelectSeq(DocOrder, LAMBDA c : c # Root /\ inDoc[c]) ELSE <<>>

RECURSIVE PlansOf(_, _, _)
PlansOf(d, elements, mode) ==
  IF elements = <<>> THEN <<>>
  ELSE (IF MatchesSkip(d, Head(elements)) THEN <<>>
        ELSE createPatchPlan(d, Head(elements), mode))
       \o PlansOf(d, Tail(elements), mode)

\* analyzeElements: an element that matches the skip list is left out with
\* its children; otherwise its plan, then the plans of its descendants.
RECURSIVE analyzeElements(_, _, _)
analyzeElements(d, elements, mode) ==
  IF elements = <<>> THEN <<>>
  ELSE (IF MatchesSkip(d, Head(elements)) THEN <<>>
        ELSE createPatchPlan(d, Head(elements), mode)
             \o PlansOf(d, Descendants(Head(elements)), mode))
       \o analyzeElements(d, Tail(elements), mode)

(***************************************************************************)
(* mutation-handler.js                                                     *)
(***************************************************************************)
\* Mutant of scheduleFlush: the early return on `scheduled` is missing.
scheduleFlushAlways(sched, queue, mode) == <<TRUE, Append(queue, mode)>>

\* scheduleFlush: the new values of <<scheduled, rafQueue>>.
scheduleFlush(sched, queue, mode) ==
  IF sched THEN <<sched, queue>> ELSE <<TRUE, Append(queue, mode)>>

\* Array.from(pendingElements).slice(0, MUTATION_BATCH_SIZE)
BatchOf(pending) == SubSeq(pending, 1, Min(MUTATION_BATCH_SIZE, Len(pending)))

\* The mutant of the frame callback: pendingElements is not cleared.
AfterFlushKeeps(pending) == pending

\* What the frame callback leaves in pendingElements: pendingElements.clear()
AfterFlush(pending) == <<>>

\* The observer callback, run in the microtask after a task that queued the
\* records muts (targets and added nodes): each is added to the pending set,
\* then scheduleFlush.  sched and queue are the values the task left.
Deliver(muts, sched, queue, pending) ==
  IF muts = <<>> \/ observer = Null
  THEN /\ pendingElements' = pending
       /\ scheduled' = sched
       /\ rafQueue' = queue
  ELSE /\ pendingElements' = AddAll(pending, muts)
       /\ scheduled' = scheduleFlush(sched, queue, observer)[1]
       /\ rafQueue' = scheduleFlush(sched, queue, observer)[2]

\* The document and the store after a task.
Commit(d) ==
  /\ style' = d.style
  /\ marker' = d.marker
  /\ classes' = d.classes
  /\ appliedStyles' = d.store

(***************************************************************************)
(* content.js                                                              *)
(***************************************************************************)
\* let currentMode = 'light'; let useMonospace = true;
currentMode == "light"
useMonospace == TRUE

\* applyTheme() when currentMode is mode and useMonospace is mono.
applyThemeAs(d, enabled, mode, mono) ==
  IF ~enabled THEN d
  ELSE LET themeClass == IF mode = "dark" THEN THEME_DARK ELSE THEME_LIGHT
           d1 == WriteClasses(d, d.classes \ {THEME_LIGHT, THEME_DARK})
           d2 == WriteClasses(d1, d1.classes \cup {ROOT_THEME, themeClass})
           d3 == WriteClasses(d2, IF mono THEN d2.classes \cup {MONOSPACE}
                                  ELSE d2.classes \ {MONOSPACE})
       IN [d3 EXCEPT !.marker[Root] = mode]

applyTheme(d, enabled) == applyThemeAs(d, enabled, currentMode, useMonospace)

removeTheme(d) ==
  LET d1 == WriteClasses(d, d.classes \ {ROOT_THEME, THEME_LIGHT, THEME_DARK, MONOSPACE})
  IN [d1 EXCEPT !.marker[Root] = NoMark]

\* isEnabled = request.enabled; if (isEnabled) applyTheme(); else removeTheme();
SetEnabled(d, enabled) == IF enabled THEN applyTheme(d, enabled) ELSE removeTheme(d)

(***************************************************************************)
(* The initial state: the page as loaded, the content script constructed.  *)
(* Element a has an inline color (with priority) and an inline background; *)
(* b has an inline color only; the root has no inline style.               *)
(***************************************************************************)
InitStyle ==
  [e \in Elems |->
     CASE e = "a" -> [p \in Props |-> IF p = "color" THEN [v |-> "red", imp |-> TRUE]
                                      ELSE [v |-> "transparent", imp |-> FALSE]]
       [] e = "b" -> [p \in Props |-> IF p = "color" THEN [v |-> "red", imp |-> FALSE]
                                      ELSE NoDecl]
       [] OTHER   -> [p \in Props |-> NoDecl]]

InitPipe ==
  /\ isEnabled = TRUE
  /\ classes = {}
  /\ marker = [e \in Elems |-> NoMark]
  /\ style = InitStyle
  /\ inDoc = [e \in Elems |-> TRUE]
  /\ appliedStyles = [e \in Elems |-> NoSnap]
  /\ observer = Null
  /\ pendingElements = <<>>
  /\ scheduled = FALSE
  /\ rafQueue = <<>>
  /\ timers = <<>>
  /\ reverted = FALSE

(***************************************************************************)
(* The plan lists the host passes to applyPatchPlans: the result of a scan *)
(* made earlier, so possibly stale; it may hold plans without element.     *)
(***************************************************************************)
HostPlan(e, S) == [element |-> e, styles |-> [p \in S |-> Retro(currentMode)]]

HostPlans ==
  {HostPlan("a", {"color"}), HostPlan("a", Props), HostPlan(Null, {"color"})}

PlanLists == UNION { [1..n -> HostPlans] : n \in 1..MaxPlans }

(***************************************************************************)
(* Actions.                                                                *)
(***************************************************************************)
\* A run of applyPatchPlans has ended with result r; its writes are observed.
Finish(plans, r, rest) ==
  /\ Commit(r.dom)
  /\ timers' = rest \o TimerOf(plans, r)
  /\ Len(timers') <= MaxTimers
  /\ Deliver(r.dom.muts, scheduled, rafQueue, pendingElements)

\* The host calls applyPatchPlans(plans); it does so while the theme is on.
HostApply ==
  /\ isEnabled
  /\ \E plans \in PlanLists, checks \in 0..MaxPlans :
       Finish(plans, ApplyLoop(Dom, plans, 1, 0, checks), timers)
  /\ UNCHANGED <<scanVars, extVars>>
  /\ UNCHANGED <<isEnabled, inDoc, observer, reverted>>

\* The oldest timer of applyPatchPlans fires: the awaited setTimeout(0) of a
\* yield, or the deferred call with the remaining plans.
TimerFires ==
  /\ timers # <<>>
  /\ LET t == Head(timers) IN
     \E checks \in 0..MaxPlans :
       Finish(t.plans,
              IF t.kind = "resume"
              THEN ResumeLoop(Dom, t.plans, t.idx, t.applied, checks)
              ELSE ApplyLoop(Dom, t.plans, 1, 0, checks),
              Tail(timers))
  /\ UNCHANGED <<scanVars, extVars>>
  /\ UNCHANGED <<isEnabled, inDoc, observer, reverted>>

\* The host calls revertAllStyles().
HostRevert ==
  /\ LET d == revertAllStyles(Dom) IN
       /\ Commit(d)
       /\ Deliver(d.muts, scheduled, rafQueue, pendingElements)
  /\ reverted' = (reverted \/ ~isEnabled)
  /\ UNCHANGED <<scanVars, extVars>>
  /\ UNCHANGED <<isEnabled, inDoc, observer, timers>>

\* The host calls applyThemeClass(currentMode).
HostThemeClass ==
  /\ isEnabled
  /\ LET d == applyThemeClass(Dom, currentMode) IN
       /\ Commit(d)
       /\ Deliver(d.muts, scheduled, rafQueue, pendingElements)
  /\ UNCHANGED <<scanVars, extVars>>
  /\ UNCHANGED <<isEnabled, inDoc, observer, timers, reverted>>

\* startMutationObserver(currentMode, intensity)
StartMutationObserver ==
  /\ isEnabled
  /\ observer' = IF observer # Null THEN observer ELSE currentMode
  /\ UNCHANGED <<scanVars, extVars>>
  /\ UNCHANGED <<isEnabled, classes, marker, style, inDoc, appliedStyles,
                 pendingElements, scheduled, rafQueue, timers, reverted>>

\* stopMutationObserver()
StopMutationObserver ==
  /\ observer' = Null
  /\ UNCHANGED <<scanVars, extVars>>
  /\ UNCHANGED <<isEnabled, classes, marker, style, inDoc, appliedStyles,
                 pendingElements, scheduled, rafQueue, timers, reverted>>

\* The animation-frame callback of scheduleFlush.
FlushFrame ==
  /\ rafQueue # <<>>
  /\ LET mode == Head(rafQueue) IN
     IF pendingElements = <<>>
     THEN /\ scheduled' = FALSE
          /\ rafQueue' = Tail(rafQueue)
          /\ UNCHANGED <<classes, marker, style, appliedStyles,
                         pendingElements, timers>>
     ELSE \E checks \in 0..MaxPlans :
            LET plans == analyzeElements(Dom, BatchOf(pendingElements), mode)
                r == ApplyLoop(Dom, plans, 1, 0, checks)
            IN /\ Commit(r.dom)
               /\ timers' = timers \o TimerOf(plans, r)
               /\ Len(timers') <= MaxTimers
               /\ Deliver(r.dom.muts, FALSE, Tail(rafQueue),
                          AfterFlush(pendingElements))
  /\ UNCHANGED <<scanVars, extVars>>
  /\ UNCHANGED <<isEnabled, inDoc, observer, reverted>>

\* handleMessage, action 'toggle'.
Toggle ==
  /\ \E enabled \in BOOLEAN :
       /\ isEnabled' = enabled
       /\ reverted' = FALSE
       /\ LET d == SetEnabled(Dom, enabled) IN
            /\ Commit(d)
            /\ Deliver(d.muts, scheduled, rafQueue, pendingElements)
  /\ UNCHANGED <<scanVars, extVars>>
  /\ UNCHANGED <<inDoc, observer, timers>>

\* chrome.storage.onChanged: isEnabled = preferences.enabled, then as toggle.
StorageChanged ==
  /\ \E enabled \in BOOLEAN :
       /\ isEnabled' = enabled
       /\ reverted' = FALSE
       /\ LET d == SetEnabled(Dom, enabled) IN
            /\ Commit(d)
            /\ Deliver(d.muts, scheduled, rafQueue, pendingElements)
  /\ UNCHANGED <<scanVars, extVars>>
  /\ UNCHANGED <<inDoc, observer, timers>>

\* The timer of handleRouteChange on a route whose site is not allowed:
\* applyTheme(), then removeTheme() in the reaction of isSiteAllowed().
RouteBlocked ==
  /\ LET d == removeTheme(applyTheme(Dom, isEnabled)) IN
       /\ Commit(d)
       /\ Deliver(d.muts, scheduled, rafQueue, pendingElements)
  /\ UNCHANGED <<scanVars, extVars>>
  /\ UNCHANGED <<isEnabled, inDoc, observer, timers, reverted>>

\* The page inserts a detached element: a childList record with the node.
PageAttach ==
  /\ \E e \in Detachable :
       /\ ~inDoc[e]
       /\ inDoc' = [inDoc EXCEPT ![e] = TRUE]
       /\ Deliver(<<e>>, scheduled, rafQueue, pendingElements)
  /\ UNCHANGED <<scanVars, extVars>>
  /\ UNCHANGED <<isEnabled, classes, marker, style, appliedStyles, observer,
                 timers, reverted>>

\* The page removes an element: removed nodes are not collected.
PageDetach ==
  /\ \E e \in Detachable :
       /\ inDoc[e]
       /\ inDoc' = [inDoc EXCEPT ![e] = FALSE]
  /\ UNCHANGED <<scanVars, extVars>>
  /\ UNCHANGED <<isEnabled, classes, marker, style, appliedStyles, observer,
                 pendingElements, scheduled, rafQueue, timers, reverted>>

(***************************************************************************)
(* dom-analyzer.js: analyzeDOMChunk(rootElement, mode, intensity, options) *)
(* The subtree of rootElement: node 0 is rootElement, nodes 1..NumNodes    *)
(* its descendants numbered in document (pre-)order; every odd node is a   *)
(* child of the root and every even node the child of the node before it.  *)
(***************************************************************************)
NumNodes == 5
MaxChunk == 3
Nodes == 1..NumNodes
None == 0 - 1
Parent(n) == IF n % 2 = 0 THEN n - 1 ELSE 0

\* What an element can be: an ordinary visible element, one whose tag is in
\* SKIP_ELEMENTS, one that matches SKIP_SELECTORS through its tag or class,
\* one that matches it through the theme-applied marker, an invisible one.
Kinds == {"plain", "script", "svg", "marked", "hidden"}

DefaultOptions == [skipProcessed |-> TRUE, visibleOnly |-> TRUE]

\* The mutant of the filter: a selector match skips instead of rejecting.
FilterSelectorSkips(kind, opts) ==
  IF kind = "script" THEN "reject"
  ELSE IF kind \in {"svg", "marked"} THEN "skip"
  ELSE IF opts.visibleOnly /\ kind = "hidden" THEN "skip"
  ELSE "accept"

\* acceptNode(node) but for the processedElements test.
Filter(kind, opts) ==
  IF kind = "script" THEN "reject"
  ELSE IF kind \in {"svg", "marked"} THEN "reject"
  ELSE IF opts.visibleOnly /\ kind = "hidden" THEN "skip"
  ELSE "accept"

\* An element for which acceptNode answers f under the default options.
KindFor(f) ==
  IF f = "reject" THEN "script" ELSE IF f = "skip" THEN "hidden" ELSE "plain"

\* acceptNode(node): the tag and selector tests reject; then an element in
\* processedElements (when skipProcessed is set) and an invisible one are
\* skipped.
acceptNode(n) ==
  IF filterOf[n] = "reject" THEN "reject"
  ELSE IF options.skipProcessed /\ n \in processedElements THEN "skip"
  ELSE filterOf[n]

\* A node the walker can reach: none of its ancestors below the root is
\* rejected (FILTER_REJECT prunes the subtree, FILTER_SKIP does not).
Reachable(n) == Parent(n) = 0 \/ acceptNode(Parent(n)) # "reject"

\* walker.nextNode() from currentNode cur: the next node in document order
\* that is reachable and accepted, or null.
nextNode(cur) ==
  LET after == {n \in Nodes : n > cur /\ Reachable(n) /\ acceptNode(n) = "accept"}
  IN IF after = {} THEN None
     ELSE CHOOSE n \in after : \A m \in after : n <= m

\* currentNode stays where it is when nextNode() returns null.
Moved(cur) == IF nextNode(cur) = None THEN cur ELSE nextNode(cur)

\* while ((element = walker.nextNode()) && count < maxElements)
\* The clock runs on while the walker moves.
ChunkNext ==
  /\ pc = "loop"
  /\ walker' = Moved(walker)
  /\ pc' = IF nextNode(walker) # None /\ count < maxElements THEN "body" ELSE "exit"
  /\ overBudget' \in {overBudget, TRUE}
  /\ UNCHANGED <<filterOf, maxElements, count, processedElements, hasMore,
                 kindOf, options, patchPlans>>
  /\ UNCHANGED <<pipeVars, extVars>>

\* if (performance.now() - startTime > MAX_SCAN_TIME_MS) break;
ChunkOverBudget ==
  /\ pc = "body"
  /\ overBudget
  /\ pc' = "exit"
  /\ UNCHANGED <<filterOf, maxElements, walker, count, processedElements, hasMore,
                 kindOf, options, overBudget, patchPlans>>
  /\ UNCHANGED <<pipeVars, extVars>>

\* The mutant of the loop body: the element is processed without a look
\* at the clock.
ChunkProcessUnchecked ==
  /\ pc = "body"
  /\ processedElements' = processedElements \cup {walker}
  /\ \E plan \in BOOLEAN :
       patchPlans' = IF plan THEN patchPlans \cup {walker} ELSE patchPlans
  /\ count' = count + 1
  /\ pc' = "loop"
  /\ UNCHANGED <<filterOf, maxElements, walker, hasMore, kindOf, options, overBudget>>
  /\ UNCHANGED <<pipeVars, extVars>>

\* The budget check passes: processedElements.add(element);
\* plan = createPatchPlan(...); if (plan) patchPlans.push(plan); count++;
ChunkProcess ==
  /\ pc = "body"
  /\ ~overBudget
  /\ processedElements' = processedElements \cup {walker}
  /\ \E plan \in BOOLEAN :
       patchPlans' = IF plan THEN patchPlans \cup {walker} ELSE patchPlans
  /\ count' = count + 1
  /\ pc' = "loop"
  /\ UNCHANGED <<filterOf, maxElements, walker, hasMore, kindOf, options, overBudget>>
  /\ UNCHANGED <<pipeVars, extVars>>

\* return { ..., elementsProcessed: count, hasMore: walker.nextNode() !== null }
ChunkReturn ==
  /\ pc = "exit"
  /\ hasMore' = (nextNode(walker) # None)
  /\ walker' = Moved(walker)
  /\ pc' = "done"
  /\ UNCHANGED <<filterOf, maxElements, count, processedElements,
                 kindOf, options, overBudget, patchPlans>>
  /\ UNCHANGED <<pipeVars, extVars>>

\* No call of analyzeDOMChunk is under way.
InitScanIdle ==
  /\ filterOf = [n \in Nodes |-> "accept"]
  /\ maxElements = 1
  /\ walker = 0
  /\ count = 0
  /\ processedElements = {}
  /\ pc = "idle"
  /\ hasMore = FALSE
  /\ kindOf = [n \in Nodes |-> "plain"]
  /\ options = DefaultOptions
  /\ overBudget = FALSE
  /\ patchPlans = {}

\* No call of analyzeFullDOM is under way.
InitFullIdle ==
  /\ fullPc = "idle"
  /\ covered = {}
  /\ ceilingHit = FALSE
  /\ elapsed = 0
  /\ chunks = {}

\* No function of color-utils.js has been called.
NoCall == [fn |-> "none"]

InitColorIdle ==
  /\ call = NoCall
  /\ ret = <<>>
  /\ steps = 0

\* The page has loaded; hookHistoryNavigation has not been called.
Unhooked == [original |-> FALSE, pushWrappers |-> 0, replaceWrappers |-> 0,
             popstate |-> 0, changed |-> 0]

InitHistIdle ==
  /\ hooks = Unhooked
  /\ hookCalls = 0
  /\ entries = <<"/">>
  /\ index = 1
  /\ trace = <<>>

\* null / undefined in the place of a preferences object.
NoPreferences == [null |-> TRUE]

\* The content script is not followed step by step: initialize() is over.
InitContentIdle ==
  /\ preferences = NoPreferences
  /\ state = [currentMode |-> currentMode, useMonospace |-> useMonospace,
              currentIntensity |-> 8]
  /\ initPc = "done"
  /\ routeTimers = 0
  /\ systemDark = FALSE

\* The dynamic content handler is not followed: no timer of it is pending.
InitHandlerIdle ==
  /\ batchTimeout = <<>>
  /\ pageMutations = 0
  /\ applyTimers = 0

\* The calls of storage.js that may run at a time.
NumOps == 2

\* No call of storage.js in this place.
NoOp == [fn |-> "none", key |-> "", value |-> "", pc |-> "idle",
         prefs |-> [null |-> TRUE]]

\* The storage and the popup are not followed.
InitStorageIdle ==
  /\ syncStore = NoPreferences
  /\ storageEvents = <<>>
  /\ messages = <<>>
  /\ selectedMode = "auto"
  /\ ops = [i \in 1..NumOps |-> NoOp]

InitExtIdle ==
  /\ InitFullIdle /\ InitColorIdle /\ InitHistIdle /\ InitContentIdle
  /\ InitHandlerIdle /\ InitStorageIdle

\* A call of analyzeDOMChunk starts, on any subtree and with any maxElements.
InitChunk ==
  /\ InitPipe
  /\ InitExtIdle
  /\ filterOf \in [Nodes -> {"accept", "skip", "reject"}]
  /\ maxElements \in 1..MaxChunk
  /\ walker = 0
  /\ count = 0
  /\ processedElements = {}
  /\ pc = "loop"
  /\ hasMore = FALSE
  /\ kindOf = [n \in Nodes |-> KindFor(filterOf[n])]
  /\ options = DefaultOptions
  /\ overBudget = FALSE
  /\ patchPlans = {}

NextChunk == ChunkNext \/ ChunkOverBudget \/ ChunkProcess \/ ChunkReturn

SpecChunk == InitChunk /\ [][NextChunk]_vars

\* A call of analyzeDOMChunk starts, on a subtree of any elements and with
\* any options.
InitScan ==
  /\ InitPipe
  /\ InitExtIdle
  /\ kindOf \in [Nodes -> Kinds]
  /\ options \in [skipProcessed : BOOLEAN, visibleOnly : BOOLEAN]
  /\ filterOf = [n \in Nodes |-> Filter(kindOf[n], options)]
  /\ maxElements \in 1..MaxChunk
  /\ walker = 0
  /\ count = 0
  /\ processedElements = {}
  /\ pc = "loop"
  /\ hasMore = FALSE
  /\ overBudget = FALSE
  /\ patchPlans = {}

SpecScan == InitScan /\ [][NextChunk]_vars

(***************************************************************************)
(* dom-analyzer.js: analyzeFullDOM(mode, intensity).  Every round of its   *)
(* loop awaits an idle callback and then calls analyzeDOMChunk on          *)
(* document.body with the default maxElements; the call builds a new       *)
(* TreeWalker and a new WeakSet.                                           *)
(***************************************************************************)
\* The clock is counted in steps of MAX_SCAN_TIME_MS: the ceiling
\* PERFORMANCE_CONFIG.MAX_SCAN_TIME_MS * 3, and the most steps one round of
\* the loop takes.
CeilingTicks == 3
MaxTick == 2

\* const result = await analyzeDOMChunk(document.body, mode, intensity, ...)
FullChunkStart ==
  /\ fullPc = "await"
  /\ walker' = 0
  /\ count' = 0
  /\ processedElements' = {}
  /\ overBudget' = FALSE
  /\ patchPlans' = {}
  /\ pc' = "loop"
  /\ fullPc' = "chunk"
  /\ UNCHANGED <<filterOf, maxElements, hasMore, kindOf, options, covered, ceilingHit,
                 elapsed, chunks>>
  /\ UNCHANGED exceptFull

\* The mutant of the break: over the ceiling the loop goes round again.
FullCeilingRetry ==
  /\ fullPc = "chunk"
  /\ pc = "done"
  /\ \E tick \in 0..MaxTick :
       /\ elapsed + tick > CeilingTicks
       /\ elapsed' = elapsed + tick
  /\ chunks' = chunks \cup patchPlans
  /\ covered' = covered \cup processedElements
  /\ fullPc' = IF hasMore THEN "await" ELSE "returned"
  /\ pc' = "idle"
  /\ UNCHANGED <<filterOf, maxElements, walker, count, processedElements, hasMore,
                 kindOf, options, overBudget, patchPlans, ceilingHit>>
  /\ UNCHANGED exceptFull

\* chunks.push(...result.plans); hasMore = result.hasMore; the clock has
\* gone tick steps on since the round before, and the total time is over
\* 3 * MAX_SCAN_TIME_MS: break
FullCeiling ==
  /\ fullPc = "chunk"
  /\ pc = "done"
  /\ \E tick \in 0..MaxTick :
       /\ elapsed + tick > CeilingTicks
       /\ elapsed' = elapsed + tick
  /\ chunks' = chunks \cup patchPlans
  /\ covered' = covered \cup processedElements
  /\ ceilingHit' = TRUE
  /\ fullPc' = "returned"
  /\ pc' = "idle"
  /\ UNCHANGED <<filterOf, maxElements, walker, count, processedElements, hasMore,
                 kindOf, options, overBudget, patchPlans>>
  /\ UNCHANGED exceptFull

\* chunks.push(...result.plans); hasMore = result.hasMore; the total time
\* is within the ceiling: while (hasMore)
FullContinue ==
  /\ fullPc = "chunk"
  /\ pc = "done"
  /\ \E tick \in 0..MaxTick :
       /\ elapsed + tick <= CeilingTicks
       /\ elapsed' = elapsed + tick
  /\ chunks' = chunks \cup patchPlans
  /\ covered' = covered \cup processedElements
  /\ fullPc' = IF hasMore THEN "await" ELSE "returned"
  /\ pc' = "idle"
  /\ UNCHANGED <<filterOf, maxElements, walker, count, processedElements, hasMore,
                 kindOf, options, overBudget, patchPlans, ceilingHit>>
  /\ UNCHANGED exceptFull

\* A call of analyzeFullDOM starts, on any document body.
InitFull ==
  /\ InitPipe
  /\ InitColorIdle
  /\ InitHistIdle
  /\ InitContentIdle
  /\ InitHandlerIdle /\ InitStorageIdle
  /\ filterOf \in [Nodes -> {"accept", "skip", "reject"}]
  /\ maxElements \in 1..MaxChunk
  /\ walker = 0
  /\ count = 0
  /\ processedElements = {}
  /\ pc = "idle"
  /\ hasMore = TRUE
  /\ kindOf = [n \in Nodes |-> KindFor(filterOf[n])]
  /\ options = DefaultOptions
  /\ overBudget = FALSE
  /\ patchPlans = {}
  /\ fullPc = "await"
  /\ covered = {}
  /\ ceilingHit = FALSE
  /\ elapsed = 0
  /\ chunks = {}

NextFull ==
  \/ FullChunkStart
  \/ ChunkNext
  \/ ChunkOverBudget
  \/ ChunkProcess
  \/ ChunkReturn
  \/ FullCeiling
  \/ FullContinue

SpecFull == InitFull /\ [][NextFull]_vars

\* The clock goes on between two chunks.
ClockAdvances == (FullCeiling \/ FullContinue) /\ elapsed' > elapsed

\* The call under its scheduling: the idle callback fires, the chunk runs to
\* its end, and a round comes at which the clock has gone on.
SpecFullFair == SpecFull /\ WF_vars(NextFull) /\ SF_vars(ClockAdvances)


Init == InitPipe /\ InitScanIdle /\ InitExtIdle

Next ==
  \/ HostApply
  \/ TimerFires
  \/ HostRevert
  \/ HostThemeClass
  \/ StartMutationObserver
  \/ StopMutationObserver
  \/ FlushFrame
  \/ Toggle
  \/ StorageChanged
  \/ RouteBlocked
  \/ PageAttach
  \/ PageDetach

Spec == Init /\ [][Next]_vars

(***************************************************************************)
(* The batcher left alone: the observer is connected, the page has set any *)
(* inline colors and may have touched elements already (they are pending   *)
(* and a frame is requested); from then on the page at most inserts the    *)
(* detached element, and no host call is made.  A requested animation      *)
(* frame comes and a timer set by applyPatchPlans fires.                   *)
(***************************************************************************)
InitBatch ==
  /\ InitScanIdle
  /\ InitExtIdle
  /\ isEnabled = TRUE
  /\ classes = {}
  /\ marker = [e \in Elems |-> NoMark]
  /\ \E colored \in SUBSET Elems :
       style = [e \in Elems |-> [p \in Props |->
                  IF p = "color" /\ e \in colored THEN Decl("red", FALSE) ELSE NoDecl]]
  /\ inDoc \in {f \in [Elems -> BOOLEAN] : \A e \in Elems \ Detachable : f[e]}
  /\ appliedStyles = [e \in Elems |-> NoSnap]
  /\ observer \in Modes
  /\ pendingElements \in {<<>>, <<"a">>, <<"html">>, <<"b", "a">>}
  /\ scheduled = (pendingElements # <<>>)
  /\ rafQueue = IF pendingElements # <<>> THEN <<observer>> ELSE <<>>
  /\ timers = <<>>
  /\ reverted = FALSE

NextBatch == PageAttach \/ FlushFrame \/ TimerFires

SpecBatch ==
  InitBatch /\ [][NextBatch]_vars /\ WF_vars(FlushFrame) /\ WF_vars(TimerFires)

\* startMutationObserver(mode, intensity) with any mode: if (observer)
\* return; otherwise the new observer's callback closes over mode.
StartMutationObserverAs ==
  /\ \E mode \in Modes :
       observer' = IF observer # Null THEN observer ELSE mode
  /\ UNCHANGED <<scanVars, extVars>>
  /\ UNCHANGED <<isEnabled, classes, marker, style, inDoc, appliedStyles,
                 pendingElements, scheduled, rafQueue, timers, reverted>>

\* The batcher with the observer stopped and started again by the host.
NextRestart ==
  \/ PageAttach
  \/ FlushFrame
  \/ TimerFires
  \/ StopMutationObserver
  \/ StartMutationObserverAs

SpecRestart == InitBatch /\ [][NextRestart]_vars

(***************************************************************************)
(* dynamic-content-handler.js: the document observer of the handler        *)
(* (childList, subtree, attributes style and class) and the debounced      *)
(* timer of batchProcessElements.  The observer of mutation-handler.js is  *)
(* not connected here.                                                     *)
(***************************************************************************)
\* Most mutations the page itself makes.
MaxPageMutations == 3

\* Most timers of handleInfiniteScrollTrigger pending at a time.
MaxApplyTimers == 2

\* The record one classList call on the root queues: the call sets the
\* class attribute unless there is none and the token set is empty.
ClassRecord(old, new) == IF new # {} \/ old # {} THEN <<Root>> ELSE <<>>

\* The targets of the records one applyTheme() queues for the document
\* observer, one per classList call (data-owl-theme is not in its filter).
applyThemeRecords(d, enabled) ==
  IF ~enabled THEN <<>>
  ELSE LET themeClass == IF currentMode = "dark" THEN THEME_DARK ELSE THEME_LIGHT
           c1 == d.classes \ {THEME_LIGHT, THEME_DARK}
           c2 == c1 \cup {ROOT_THEME, themeClass}
           c3 == IF useMonospace THEN c2 \cup {MONOSPACE} ELSE c2 \ {MONOSPACE}
       IN ClassRecord(d.classes, c1) \o ClassRecord(c1, c2) \o ClassRecord(c2, c3)

\* The records removeTheme() queues for the document observer.
removeThemeRecords(d) ==
  ClassRecord(d.classes, d.classes \ {ROOT_THEME, THEME_LIGHT, THEME_DARK, MONOSPACE})

\* handleMutations: elementsToProcess, the targets and added elements of the
\* records, each once.
handleMutations(records) == AddAll(<<>>, records)

\* batchProcessElements(elements), called when elementsToProcess is not
\* empty: the pending timer is cleared and a new one holds elements.
batchProcessElements(pending, records) ==
  IF handleMutations(records) # <<>> THEN handleMutations(records) ELSE pending

\* elements.forEach(element => applyTheme()): n calls of applyTheme, the
\* document after them and the records they queued.
RECURSIVE ApplyForEach(_, _, _, _)
ApplyForEach(d, records, n, enabled) ==
  IF n = 0 THEN [dom |-> d, records |-> records]
  ELSE ApplyForEach(applyTheme(d, enabled),
                    records \o applyThemeRecords(d, enabled), n - 1, enabled)

\* The timer of batchProcessElements fires; the records of its writes are
\* delivered to handleMutations in the microtask after it.
BatchTimeoutFires ==
  /\ batchTimeout # <<>>
  /\ LET r == ApplyForEach(Dom, <<>>, Len(batchTimeout), isEnabled) IN
       /\ Commit(r.dom)
       /\ Deliver(r.dom.muts, scheduled, rafQueue, pendingElements)
       /\ batchTimeout' = batchProcessElements(<<>>, r.records)
  /\ UNCHANGED <<isEnabled, inDoc, observer, timers, reverted, pageMutations>>
  /\ UNCHANGED <<scanVars, exceptHandler, applyTimers>>

\* The page sets the class attribute of a connected element other than the
\* root.
PageSetsClass ==
  /\ pageMutations < MaxPageMutations
  /\ \E e \in Elems \ {Root} :
       /\ inDoc[e]
       /\ Deliver(<<e>>, scheduled, rafQueue, pendingElements)
       /\ batchTimeout' = batchProcessElements(batchTimeout, <<e>>)
  /\ pageMutations' = pageMutations + 1
  /\ UNCHANGED <<isEnabled, classes, marker, style, inDoc, appliedStyles,
                 observer, timers, reverted>>
  /\ UNCHANGED <<scanVars, exceptHandler, applyTimers>>

\* The page inserts a detached element.
PageInserts ==
  /\ pageMutations < MaxPageMutations
  /\ \E e \in Detachable :
       /\ ~inDoc[e]
       /\ inDoc' = [inDoc EXCEPT ![e] = TRUE]
       /\ Deliver(<<e>>, scheduled, rafQueue, pendingElements)
       /\ batchTimeout' = batchProcessElements(batchTimeout, <<e>>)
  /\ pageMutations' = pageMutations + 1
  /\ UNCHANGED <<isEnabled, classes, marker, style, appliedStyles,
                 observer, timers, reverted>>
  /\ UNCHANGED <<scanVars, exceptHandler, applyTimers>>

\* handleMessage, action 'toggle', with the document observer connected.
HandlerToggle ==
  /\ \E enabled \in BOOLEAN :
       /\ isEnabled' = enabled
       /\ reverted' = FALSE
       /\ LET d == SetEnabled(Dom, enabled) IN
            /\ Commit(d)
            /\ Deliver(d.muts, scheduled, rafQueue, pendingElements)
       /\ batchTimeout' =
            batchProcessElements(batchTimeout,
                                 IF enabled THEN applyThemeRecords(Dom, enabled)
                                 ELSE removeThemeRecords(Dom))
  /\ UNCHANGED <<inDoc, observer, timers, pageMutations>>
  /\ UNCHANGED <<scanVars, exceptHandler, applyTimers>>

\* A scroll near the bottom of an observed container:
\* handleInfiniteScrollTrigger sets a timer that calls applyTheme().
InfiniteScrollTrigger ==
  /\ applyTimers < MaxApplyTimers
  /\ applyTimers' = applyTimers + 1
  /\ UNCHANGED <<pipeVars, scanVars, exceptHandler, batchTimeout, pageMutations>>

\* The timer of handleInfiniteScrollTrigger fires: applyTheme().
ApplyTimerFires ==
  /\ applyTimers > 0
  /\ applyTimers' = applyTimers - 1
  /\ LET r == ApplyForEach(Dom, <<>>, 1, isEnabled) IN
       /\ Commit(r.dom)
       /\ Deliver(r.dom.muts, scheduled, rafQueue, pendingElements)
       /\ batchTimeout' = batchProcessElements(batchTimeout, r.records)
  /\ UNCHANGED <<isEnabled, inDoc, observer, timers, reverted, pageMutations>>
  /\ UNCHANGED <<scanVars, exceptHandler>>

\* The handler is initialized on a loaded page; the theme is on or off.
InitHandler ==
  /\ InitScanIdle
  /\ InitFullIdle /\ InitColorIdle /\ InitHistIdle /\ InitContentIdle
  /\ InitStorageIdle
  /\ isEnabled \in BOOLEAN
  /\ classes = IF isEnabled
               THEN {ROOT_THEME, MONOSPACE,
                     IF currentMode = "dark" THEN THEME_DARK ELSE THEME_LIGHT}
               ELSE {}
  /\ marker = [e \in Elems |-> IF e = Root /\ isEnabled THEN currentMode ELSE NoMark]
  /\ style = [e \in Elems |-> [p \in Props |-> NoDecl]]
  /\ inDoc \in {f \in [Elems -> BOOLEAN] : \A e \in Elems \ Detachable : f[e]}
  /\ appliedStyles = [e \in Elems |-> NoSnap]
  /\ observer = Null
  /\ pendingElements = <<>>
  /\ scheduled = FALSE
  /\ rafQueue = <<>>
  /\ timers = <<>>
  /\ reverted = FALSE
  /\ batchTimeout = <<>>
  /\ pageMutations = 0
  /\ applyTimers = 0

NextHandler ==
  \/ BatchTimeoutFires
  \/ PageSetsClass
  \/ PageInserts
  \/ HandlerToggle
  \/ InfiniteScrollTrigger
  \/ ApplyTimerFires

SpecHandler ==
  /\ InitHandler /\ [][NextHandler]_vars
  /\ WF_vars(BatchTimeoutFires) /\ WF_vars(ApplyTimerFires)

(***************************************************************************)
(* color-utils.js.  A CSS value is a sequence of pieces: a word, a hex     *)
(* color, or a functional notation with its numbers.  The empty sequence   *)
(* is the empty string.  Alpha is held in tenths.  The arithmetic is exact *)
(* where the code's is in double precision; the two can differ by one in   *)
(* a rounded result that lies on a half, which the arguments used below    *)
(* do not produce.                                                         *)
(***************************************************************************)
Word(w) == [k |-> "word", w |-> w, x |-> 0, y |-> 0, z |-> 0, a |-> 10]
Hex(r, g, b) == [k |-> "hex", w |-> "", x |-> r, y |-> g, z |-> b, a |-> 10]
Rgb(r, g, b) == [k |-> "rgb", w |-> "", x |-> r, y |-> g, z |-> b, a |-> 10]
Rgba(r, g, b, a) == [k |-> "rgba", w |-> "", x |-> r, y |-> g, z |-> b, a |-> a]
Hsl(h, s, l) == [k |-> "hsl", w |-> "", x |-> h, y |-> s, z |-> l, a |-> 10]

\* A parse result: null, or {r, g, b, a}.
NoColor == [ok |-> FALSE, r |-> 0, g |-> 0, b |-> 0, a |-> 10]
Color(r, g, b, a) == [ok |-> TRUE, r |-> r, g |-> g, b |-> b, a |-> a]

\* Math.round(n / m) for m > 0: halves go up.
Round(n, m) == (2 * n + m) \div (2 * m)
Abs(n) == IF n < 0 THEN 0 - n ELSE n
Max(a, b) == IF a > b THEN a ELSE b

\* hslToRgb(h, s, l, a) with s and l in percent.
hue2rgb(P, Q, T0) ==
  LET T == IF T0 < 0 THEN T0 + 360 ELSE IF T0 > 360 THEN T0 - 360 ELSE T0
      v60 == IF T < 60 THEN 60 * P + (Q - P) * T
             ELSE IF T < 180 THEN 60 * Q
             ELSE IF T < 240 THEN 60 * P + (Q - P) * (240 - T)
             ELSE 60 * P
  IN Round(255 * v60, 600000)

hslToRgb(H, S, L, a) ==
  IF S = 0
  THEN Color(Round(255 * L, 100), Round(255 * L, 100), Round(255 * L, 100), a)
  ELSE LET Q == IF L < 50 THEN L * (100 + S) ELSE 100 * L + 100 * S - L * S
           P == 200 * L - Q
       IN Color(hue2rgb(P, Q, H + 120), hue2rgb(P, Q, H), hue2rgb(P, Q, H - 120), a)

\* rgbToHsl(r, g, b): h, s and l rounded to integers.
rgbToHsl(r, g, b) ==
  LET mx == Max(r, Max(g, b))
      mn == Min(r, Min(g, b))
      d  == mx - mn
      sum == mx + mn
  IN IF d = 0 THEN [h |-> 0, s |-> 0, l |-> Round(100 * sum, 510)]
     ELSE [h |-> IF mx = r THEN Round(60 * ((g - b) + (IF g < b THEN 6 * d ELSE 0)), d)
                 ELSE IF mx = g THEN Round(60 * ((b - r) + 2 * d), d)
                 ELSE Round(60 * ((r - g) + 4 * d), d),
           s |-> IF sum > 255 THEN Round(100 * d, 510 - sum) ELSE Round(100 * d, sum),
           l |-> Round(100 * sum, 510)]

\* Is there a piece of kind rgb/rgba (hsl) anywhere in the string: the
\* regular expressions of parseColor are not anchored.
FirstOf(color, kinds) ==
  LET I == {i \in 1..Len(color) : color[i].k \in kinds}
  IN IF I = {} THEN 0 ELSE CHOOSE i \in I : \A j \in I : i <= j

\* parseColor(color)
parseColor(color) ==
  IF color = <<>> \/ color = <<Word("transparent")>> \/ color = <<Word("inherit")>>
  THEN NoColor
  ELSE IF color[1].k = "hex" \/ (color[1].k = "word" /\ color[1].w = "#abc")
  THEN IF Len(color) = 1 /\ color[1].k = "hex"
       THEN Color(color[1].x, color[1].y, color[1].z, 10)
       ELSE NoColor
  ELSE IF FirstOf(color, {"rgb", "rgba"}) # 0
  THEN LET m == color[FirstOf(color, {"rgb", "rgba"})]
       IN Color(m.x, m.y, m.z, m.a)
  ELSE IF FirstOf(color, {"hsl"}) # 0
  THEN LET m == color[FirstOf(color, {"hsl"})]
       IN hslToRgb(m.x, m.y, m.z, m.a)
  ELSE NoColor

\* Object.values(RETRO_PALETTE), in the order of the object literal.
RETRO_PALETTE ==
  << Hex(251, 205, 67), Hex(230, 75, 53), Hex(198, 49, 43), Hex(153, 45, 60),
     Hex(109, 39, 68), Hex(183, 178, 165), Hex(104, 90, 60) >>

PaletteHsl(i) ==
  LET c == parseColor(<<RETRO_PALETTE[i]>>) IN rgbToHsl(c.r, c.g, c.b)

\* The mutant of the distance: the hue difference is not wrapped.
DistanceUnwrapped2(hsl, i) ==
  LET p == PaletteHsl(i)
  IN 4 * Abs(hsl.h - p.h) + 2 * Abs(hsl.s - p.s) + Abs(hsl.l - p.l)

\* 2 * distance, distance = (hDiff * 2) + sDiff + (lDiff * 0.5)
Distance2(hsl, i) ==
  LET p == PaletteHsl(i)
      hDiff == Min(Abs(hsl.h - p.h), 360 - Abs(hsl.h - p.h))
  IN 4 * hDiff + 2 * Abs(hsl.s - p.s) + Abs(hsl.l - p.l)

\* palette.forEach(...): the index of closestColor after the colors from
\* number i on, when `best` is the closest so far (0: none, Infinity).
RECURSIVE ClosestLast(_, _, _)
ClosestLast(hsl, i, best) ==
  IF i > Len(RETRO_PALETTE) THEN best
  ELSE IF best = 0 \/ Distance2(hsl, i) <= Distance2(hsl, best)
  THEN ClosestLast(hsl, i + 1, i)
  ELSE ClosestLast(hsl, i + 1, best)

RECURSIVE Closest(_, _, _)
Closest(hsl, i, best) ==
  IF i > Len(RETRO_PALETTE) THEN best
  ELSE IF best = 0 \/ Distance2(hsl, i) < Distance2(hsl, best)
  THEN Closest(hsl, i + 1, i)
  ELSE Closest(hsl, i + 1, best)

\* The mode and intensity adjustment of the closest palette color; the
\* intensity is held in tenths.
Adjusted(i, mode, intensity) ==
  LET p == PaletteHsl(i)
      l == IF mode = "dark" THEN Max(20, p.l - 20) ELSE Min(80, p.l + 10)
      s10 == IF mode = "dark" THEN Min(1000, 12 * p.s) ELSE 10 * p.s
  IN [h |-> p.h, s |-> Round(s10 * intensity, 100), l |-> l]

\* The mutant of mapToRetroPalette: the result is opaque.
mapToRetroPaletteOpaque(originalColor, mode, intensity) ==
  LET rgb == parseColor(originalColor) IN
  IF ~rgb.ok THEN originalColor
  ELSE LET hsl == rgbToHsl(rgb.r, rgb.g, rgb.b)
           adj == Adjusted(Closest(hsl, 1, 0), mode, intensity)
           result == hslToRgb(adj.h, adj.s, adj.l, 10)
       IN <<Rgba(result.r, result.g, result.b, result.a)>>

\* mapToRetroPalette(originalColor, mode, intensity)
mapToRetroPalette(originalColor, mode, intensity) ==
  LET rgb == parseColor(originalColor) IN
  IF ~rgb.ok THEN originalColor
  ELSE LET hsl == rgbToHsl(rgb.r, rgb.g, rgb.b)
           adj == Adjusted(Closest(hsl, 1, 0), mode, intensity)
           result == hslToRgb(adj.h, adj.s, adj.l, rgb.a)
       IN <<Rgba(result.r, result.g, result.b, result.a)>>

\* 10000 * (c <= 0.03928 ? c / 12.92 : Math.pow((c + 0.055) / 1.055, 2.4))
\* for the channel values 0, 1, 2, ...
LinearTable ==
  <<
     0, 3, 6, 9, 12, 15, 18, 21, 24, 27, 30, 33,
     37, 40, 44, 48, 52, 56, 60, 65, 70, 75, 80, 86,
     91, 97, 103, 110, 116, 123, 130, 137, 144, 152, 160, 168,
     176, 185, 194, 203, 212, 222, 232, 242, 252, 262, 273, 284,
     296, 307, 319, 331, 343, 356, 369, 382, 395, 409, 423, 437,
     452, 467, 482, 497, 513, 529, 545, 561, 578, 595, 612, 630,
     648, 666, 685, 704, 723, 742, 762, 782, 802, 823, 844, 865,
     887, 908, 931, 953, 976, 999, 1022, 1046, 1070, 1095, 1119, 1144,
     1170, 1195, 1221, 1248, 1274, 1301, 1329, 1356, 1384, 1413, 1441, 1470,
     1500, 1529, 1559, 1590, 1620, 1651, 1683, 1714, 1746, 1779, 1812, 1845,
     1878, 1912, 1946, 1981, 2016, 2051, 2086, 2122, 2159, 2195, 2232, 2270,
     2307, 2346, 2384, 2423, 2462, 2502, 2542, 2582, 2623, 2664, 2705, 2747,
     2789, 2831, 2874, 2918, 2961, 3005, 3050, 3095, 3140, 3185, 3231, 3278,
     3325, 3372, 3419, 3467, 3515, 3564, 3613, 3663, 3712, 3763, 3813, 3864,
     3916, 3968, 4020, 4072, 4125, 4179, 4233, 4287, 4342, 4397, 4452, 4508,
     4564, 4621, 4678, 4735, 4793, 4851, 4910, 4969, 5029, 5089, 5149, 5210,
     5271, 5333, 5395, 5457, 5520, 5583, 5647, 5711, 5776, 5841, 5906, 5972,
     6038, 6105, 6172, 6240, 6308, 6376, 6445, 6514, 6584, 6654, 6724, 6795,
     6867, 6939, 7011, 7084, 7157, 7231, 7305, 7379, 7454, 7529, 7605, 7682,
     7758, 7835, 7913, 7991, 8070, 8148, 8228, 8308, 8388, 8469, 8550, 8632,
     8714, 8796, 8879, 8963, 9047, 9131, 9216, 9301, 9387, 9473, 9560, 9647,
     9734, 9823, 9911, 10000, 10089, 10179, 10270, 10361, 10452, 10544, 10636, 10729,
     10822, 10915, 11010, 11104, 11199, 11295, 11391, 11487, 11584, 11682, 11780, 11878,
     11977, 12076, 12176, 12276, 12377
  >>

Linear(c) == IF c < 0 THEN 0 - Round((0 - c) * 100000, 32946) ELSE LinearTable[c + 1]

\* 10000 * getLuminance(r, g, b)
getLuminance(r, g, b) ==
  (2126 * Linear(r) + 7152 * Linear(g) + 722 * Linear(b)) \div 10000

\* getContrastRatio(rgb1, rgb2) >= ratio, the ratio held in tenths.
ContrastAtLeast(rgb1, rgb2, ratio10) ==
  LET l1 == getLuminance(rgb1.r, rgb1.g, rgb1.b)
      l2 == getLuminance(rgb2.r, rgb2.g, rgb2.b)
  IN 10 * (Max(l1, l2) + 500) >= ratio10 * (Min(l1, l2) + 500)

\* The lightness steps of ensureContrast, in steps of 4 points.
RECURSIVE ContrastLoopBy4(_, _, _, _, _, _)
ContrastLoopBy4(hsl, bg, ratio10, light, n, met) ==
  IF met \/ (IF light THEN hsl.l <= 0 ELSE hsl.l >= 100)
  THEN [hsl |-> hsl, steps |-> n]
  ELSE LET next == [hsl EXCEPT !.l = IF light THEN hsl.l - 4 ELSE hsl.l + 4]
       IN ContrastLoopBy4(next, bg, ratio10, light, n + 1,
            ContrastAtLeast(hslToRgb(next.h, next.s, next.l, 10), bg, ratio10))

\* while (currentRatio < targetRatio && fgHsl.l > 0) { fgHsl.l -= 5; ... } on
\* a light background, and the same towards 100 on a dark one; `met` is
\* currentRatio >= targetRatio and n the steps taken so far.
RECURSIVE ContrastLoop(_, _, _, _, _, _)
ContrastLoop(hsl, bg, ratio10, light, n, met) ==
  IF met \/ (IF light THEN hsl.l <= 0 ELSE hsl.l >= 100)
  THEN [hsl |-> hsl, steps |-> n]
  ELSE LET next == [hsl EXCEPT !.l = IF light THEN hsl.l - 5 ELSE hsl.l + 5]
       IN ContrastLoop(next, bg, ratio10, light, n + 1,
            ContrastAtLeast(hslToRgb(next.h, next.s, next.l, 10), bg, ratio10))

\* ensureContrast(foregroundColor, backgroundColor, targetRatio): the
\* returned string and the number of lightness steps.
ensureContrast(foregroundColor, backgroundColor, ratio10) ==
  LET fg == parseColor(foregroundColor)
      bg == parseColor(backgroundColor)
  IN IF ~fg.ok \/ ~bg.ok THEN [value |-> foregroundColor, steps |-> 0]
     ELSE IF ContrastAtLeast(fg, bg, ratio10)
     THEN [value |-> foregroundColor, steps |-> 0]
     ELSE LET fgHsl == rgbToHsl(fg.r, fg.g, fg.b)
              light == getLuminance(bg.r, bg.g, bg.b) > 5000
              end   == ContrastLoop(fgHsl, bg, ratio10, light, 0, FALSE)
              final == hslToRgb(end.hsl.h, end.hsl.s, end.hsl.l, fg.a)
          IN [value |-> <<Rgba(final.r, final.g, final.b, final.a)>>,
              steps |-> end.steps]

(***************************************************************************)
(* The callers' arguments.                                                 *)
(***************************************************************************)
Channels == {0, 51, 102, 153, 204, 255}
Intensities == {0, 5, 8, 10}

CssColors ==
  {<<Rgb(r, g, b)>> : r \in Channels, g \in Channels, b \in Channels}
    \cup {<<Rgba(r, 0, b, 5)>> : r \in Channels, b \in Channels}
    \cup {<<RETRO_PALETTE[i]>> : i \in 1..Len(RETRO_PALETTE)}
    \cup {<<Hsl(350, 50, 40)>>, <<Hsl(10, 50, 40)>>, <<Hsl(120, 100, 25)>>}

CssOthers ==
  { <<>>, <<Word("transparent")>>, <<Word("inherit")>>, <<Word("initial")>>,
    <<Word("red")>>, <<Word("#abc")>>,
    <<Word("linear-gradient("), Word("red"), Word(", "), Word("blue"), Word(")")>>,
    <<Word("linear-gradient("), Rgb(255, 0, 0), Word(", "), Rgb(0, 0, 255), Word(")")>>,
    <<Word("url("), Word("x.png"), Word(")")>>,
    <<Word("url("), Word("x.png"), Word(") "), Rgb(0, 0, 0)>>,
    <<Word("transparent "), Word("url("), Word("x.png"), Word(")")>> }

\* color.includes('gradient'), color.includes('url(')
Includes(color, needle) ==
  \E i \in 1..Len(color) :
    /\ color[i].k = "word"
    /\ \/ needle = "gradient" /\ color[i].w = "linear-gradient("
       \/ needle = "url(" /\ color[i].w = "url("

Grays == {0, 64, 128, 170, 200, 255}
ContrastFgs ==
  {<<Rgb(r, g, b)>> : r \in {0, 64, 250}, g \in {0, 64, 250}, b \in {0, 64, 250}}
    \cup {<<Rgb(Round(255 * l, 100), Round(255 * l, 100), Round(255 * l, 100))>> :
            l \in 0..100}
    \cup {<<Rgba(128, 128, 128, 5)>>, <<Word("red")>>}
ContrastBgs == {<<Rgb(v, v, v)>> : v \in Grays} \cup {<<Rgb(255, 255, 0)>>, <<Word("red")>>}
Ratios10 == {30, 45, 70, 220}

\* mapToRetroPalette is called.
CallMap ==
  /\ call = NoCall
  /\ \E color \in CssColors \cup CssOthers, mode \in Modes, intensity \in Intensities :
       /\ call' = [fn |-> "mapToRetroPalette", color |-> color, mode |-> mode,
                   intensity |-> intensity]
       /\ ret' = mapToRetroPalette(color, mode, intensity)
  /\ UNCHANGED steps
  /\ UNCHANGED exceptColor

\* ensureContrast is called.
CallContrast ==
  /\ call = NoCall
  /\ \E fg \in ContrastFgs, bg \in ContrastBgs, ratio10 \in Ratios10 :
       LET r == ensureContrast(fg, bg, ratio10) IN
       /\ call' = [fn |-> "ensureContrast", fg |-> fg, bg |-> bg, ratio10 |-> ratio10]
       /\ ret' = r.value
       /\ steps' = r.steps
  /\ UNCHANGED exceptColor

\* shouldPreserveColor(color) on a CSS value.
shouldPreserveCss(color) ==
  \/ color = <<>>
  \/ color \in {<<Word("transparent")>>, <<Word("inherit")>>, <<Word("initial")>>}
  \/ Includes(color, "gradient")
  \/ Includes(color, "url(")

\* const colorProps = [...]: the first two of the nine, which are all
\* handled alike.
colorProps == <<"color", "background-color">>

\* styles with styles[prop] = value.
Put(styles, prop, value) ==
  [q \in DOMAIN styles \cup {prop} |-> IF q = prop THEN value ELSE styles[q]]

\* The mutant of the forEach body: every property with a value goes into
\* the plan.
planEveryProperty(styles, prop, value, mapped) ==
  IF value # <<>> THEN Put(styles, prop, mapped) ELSE styles

\* const mappedColor = mapToRetroPalette(value, mode, intensity), which is
\* asked for a value that is there and not preserved.
MappedOf(value, mode, intensity) ==
  IF value # <<>> /\ ~shouldPreserveCss(value)
  THEN mapToRetroPalette(value, mode, intensity)
  ELSE <<>>

\* The body of colorProps.forEach for prop, whose computed value is value
\* and whose mappedColor is mapped: plan.styles after it.
planProperty(styles, prop, value, mapped) ==
  IF value # <<>> /\ ~shouldPreserveCss(value) /\ mapped # value
  THEN Put(styles, prop, mapped)
  ELSE styles

\* rgba(221, 123, 110, 0.5) is what the light mode at intensity 0.8 maps
\* itself to.
ComputedValues ==
  { <<>>, <<Word("transparent")>>, <<Word("initial")>>, <<Word("red")>>,
    <<Word("linear-gradient("), Rgb(255, 0, 0), Word(", "), Rgb(0, 0, 255), Word(")")>>,
    <<Word("url("), Word("x.png"), Word(") "), Rgb(0, 0, 0)>>,
    <<RETRO_PALETTE[1]>>, <<Rgb(0, 0, 0)>>, <<Rgba(102, 0, 51, 5)>>,
    <<Rgba(221, 123, 110, 5)>> }

\* getComputedStyle(element) of an element with these two values.
ComputedOf(color, background) ==
  [p \in Props |-> IF p = "color" THEN color ELSE background]

\* createPatchPlan is called: plan = { element, styles: {} }.  call.at is
\* the index of the next entry of colorProps, 0 after the return.
CallPlan ==
  /\ call = NoCall
  /\ \E color \in ComputedValues, background \in ComputedValues, mode \in Modes,
        intensity \in {8, 10} :
       call' = [fn |-> "createPatchPlan", color |-> color,
                background |-> background, mode |-> mode,
                intensity |-> intensity, at |-> 1]
  /\ ret' = <<[styles |-> <<>>]>>
  /\ UNCHANGED steps
  /\ UNCHANGED exceptColor

\* One round of colorProps.forEach.
PlanProperty ==
  /\ call.fn = "createPatchPlan"
  /\ call.at \in 1..Len(colorProps)
  /\ LET prop == colorProps[call.at]
         value == ComputedOf(call.color, call.background)[prop]
     IN \E mapped \in {MappedOf(value, call.mode, call.intensity)} :
          ret' = <<[styles |-> planProperty(ret[1].styles, prop, value, mapped)]>>
  /\ call' = [call EXCEPT !.at = @ + 1]
  /\ UNCHANGED steps
  /\ UNCHANGED exceptColor

\* return Object.keys(plan.styles).length > 0 ? plan : null (<<>> for null).
PlanReturn ==
  /\ call.fn = "createPatchPlan"
  /\ call.at = Len(colorProps) + 1
  /\ ret' = IF DOMAIN ret[1].styles # {} THEN ret ELSE <<>>
  /\ call' = [call EXCEPT !.at = 0]
  /\ UNCHANGED steps
  /\ UNCHANGED exceptColor

InitColor == InitPipe /\ InitScanIdle /\ InitExtIdle

NextColor == CallMap \/ CallContrast

SpecColor == InitColor /\ [][NextColor]_vars

InitPlan == InitPipe /\ InitScanIdle /\ InitExtIdle

NextPlan == CallPlan \/ PlanProperty \/ PlanReturn

SpecPlan == InitPlan /\ [][NextPlan]_vars

(***************************************************************************)
(* mutation-handler.js: hookHistoryNavigation(onNavigate) and the          *)
(* navigations of the page.  hooks.pushWrappers counts the wrappers that   *)
(* stand between a caller of history.pushState and the native method,      *)
(* hooks.popstate and hooks.changed the listeners for 'popstate' and for   *)
(* 'owl-history-changed'.                                                  *)
(***************************************************************************)
MaxHookCalls == 2
MaxEntries == 3
Urls == {"/", "/a", "/b"}

\* Mutant of hookHistoryNavigation: without the guard on the saved methods.
hookAgain(h) ==
  [original |-> TRUE,
   pushWrappers |-> h.pushWrappers + 1,
   replaceWrappers |-> h.replaceWrappers + 1,
   popstate |-> h.popstate + 1,
   changed |-> h.changed + 1]

\* hookHistoryNavigation(onNavigate)
hookHistoryNavigation(h) ==
  IF h.original THEN h
  ELSE [original |-> TRUE,
        pushWrappers |-> h.pushWrappers + 1,
        replaceWrappers |-> h.replaceWrappers + 1,
        popstate |-> h.popstate + 1,
        changed |-> h.changed + 1]

Event(ev, url) == [ev |-> ev, url |-> url]

RECURSIVE Times(_, _)
Times(n, s) == IF n = 0 THEN <<>> ELSE s \o Times(n - 1, s)

\* window.dispatchEvent(new Event('owl-history-changed')): every listener
\* for it calls onNavigate(), synchronously.
DispatchChanged(h) == Times(h.changed, <<Event("onNavigate", "")>>)

\* A call through w wrappers: each does `ret = original.apply(this, args)`,
\* then dispatches the event, then returns ret.
RECURSIVE Wrapped(_, _, _)
Wrapped(h, w, native) ==
  IF w = 0 THEN <<native>>
  ELSE Wrapped(h, w - 1, native) \o DispatchChanged(h)

\* hookHistoryNavigation is called (content scripts may call it again).
HookHistory ==
  /\ hookCalls < MaxHookCalls
  /\ hookCalls' = hookCalls + 1
  /\ hooks' = hookHistoryNavigation(hooks)
  /\ trace' = <<>>
  /\ UNCHANGED <<entries, index>>
  /\ UNCHANGED exceptHist

\* The page calls history.pushState(state, title, url).
PushState ==
  /\ \E url \in Urls :
       /\ entries' = Append(SubSeq(entries, 1, index), url)
       /\ Len(entries') <= MaxEntries
       /\ index' = index + 1
       /\ trace' = Wrapped(hooks, hooks.pushWrappers, Event("pushState", url))
  /\ UNCHANGED <<hooks, hookCalls>>
  /\ UNCHANGED exceptHist

\* The page calls history.replaceState(state, title, url).
ReplaceState ==
  /\ \E url \in Urls :
       /\ entries' = [entries EXCEPT ![index] = url]
       /\ trace' = Wrapped(hooks, hooks.replaceWrappers, Event("replaceState", url))
  /\ UNCHANGED <<hooks, hookCalls, index>>
  /\ UNCHANGED exceptHist

\* The user goes back or forward: the window gets a popstate event.
PopState ==
  /\ \E i \in 1..Len(entries) :
       /\ i # index
       /\ index' = i
  /\ trace' = Times(hooks.popstate, DispatchChanged(hooks))
  /\ UNCHANGED <<hooks, hookCalls, entries>>
  /\ UNCHANGED exceptHist

InitHist == InitPipe /\ InitScanIdle /\ InitExtIdle

NextHist == HookHistory \/ PushState \/ ReplaceState \/ PopState

SpecHist == InitHist /\ [][NextHist]_vars

(***************************************************************************)
(* content.js: the content script from the moment it is loaded.  Its       *)
(* functions are reachable through window.OwlRetroContentScript as soon as *)
(* the script has run, its listeners only once initialize() has registered *)
(* them.  Every action is one task of the event loop: a handler together   *)
(* with the promise reactions it leaves behind.                            *)
(***************************************************************************)
MaxRouteTimers == 2

Hostname == "here"

\* What chrome.storage holds under owl_preferences; the lists are kept as
\* the sets of their members (the code asks includes() and length > 0).
Preferences ==
  [enabled : BOOLEAN, mode : {"light", "dark", "auto"}, useMonospace : BOOLEAN,
   intensity : {8}, siteAllowlist : {{}, {Hostname}, {"elsewhere"}},
   siteBlocklist : {{}, {Hostname}}]

DefaultPreferences ==
  [enabled |-> TRUE, mode |-> "auto", useMonospace |-> TRUE, intensity |-> 8,
   siteAllowlist |-> {}, siteBlocklist |-> {}]

detectSystemTheme(dark) == IF dark THEN "dark" ELSE "light"

\* isSiteAllowed() of the content script on a page of the given hostname.
\* A list the preferences object lacks is undefined, so falsy.
isSiteAllowedAt(prefs, hostname) ==
  IF prefs = NoPreferences THEN TRUE
  ELSE IF "siteBlocklist" \in DOMAIN prefs /\ hostname \in prefs.siteBlocklist
       THEN FALSE
  ELSE IF "siteAllowlist" \in DOMAIN prefs /\ prefs.siteAllowlist # {}
       THEN hostname \in prefs.siteAllowlist
  ELSE TRUE

isSiteAllowed(prefs) == isSiteAllowedAt(prefs, Hostname)

\* currentMode = preferences.mode; ... if (currentMode === 'auto')
\*   currentMode = detectSystemTheme();
StateOf(prefs, dark) ==
  [currentMode |-> IF prefs.mode = "auto" THEN detectSystemTheme(dark)
                   ELSE prefs.mode,
   useMonospace |-> prefs.useMonospace,
   currentIntensity |-> prefs.intensity]

\* applyTheme() of the content script in state st.
applyThemeIn(d, enabled, st) ==
  applyThemeAs(d, enabled, st.currentMode, st.useMonospace)

\* The root element after a handler that left the document as d.
Paint(d) == classes' = d.classes /\ marker' = d.marker

\* initialize() has registered its listeners.
Listening == initPc \in {"DOMContentLoaded", "done"}

\* initialize(): loadPreferences() has answered; the state is updated and
\* the site checked.
PreferencesLoaded ==
  /\ initPc = "loadPreferences"
  /\ \E stored \in Preferences \cup {NoPreferences} :
       LET prefs == IF stored = NoPreferences THEN DefaultPreferences ELSE stored
       IN /\ preferences' = prefs
          /\ isEnabled' = prefs.enabled
          /\ state' = StateOf(prefs, systemDark)
          /\ initPc' = IF isSiteAllowed(prefs) THEN "loadThemeCSS" ELSE "returned"
  /\ UNCHANGED <<classes, marker, routeTimers, systemDark>>
  /\ UNCHANGED exceptContent

\* initialize(): loadThemeCSS() has answered; the theme is applied or left
\* to DOMContentLoaded, the listeners are registered.
ThemeCSSLoaded ==
  /\ initPc = "loadThemeCSS"
  /\ \E cssLoaded \in BOOLEAN, loading \in BOOLEAN :
       IF ~cssLoaded
       THEN initPc' = "returned" /\ UNCHANGED <<classes, marker>>
       ELSE IF isEnabled /\ loading
       THEN initPc' = "DOMContentLoaded" /\ UNCHANGED <<classes, marker>>
       ELSE initPc' = "done" /\ Paint(applyThemeIn(Dom, isEnabled, state))
  /\ UNCHANGED <<isEnabled, preferences, state, routeTimers, systemDark>>
  /\ UNCHANGED exceptContent

DOMContentLoaded ==
  /\ initPc = "DOMContentLoaded"
  /\ initPc' = "done"
  /\ Paint(applyThemeIn(Dom, isEnabled, state))
  /\ UNCHANGED <<isEnabled, preferences, state, routeTimers, systemDark>>
  /\ UNCHANGED exceptContent

\* handleMessage, case 'toggle'.
OnToggle ==
  /\ Listening
  /\ \E enabled \in BOOLEAN :
       /\ isEnabled' = enabled
       /\ Paint(IF enabled THEN applyThemeIn(Dom, enabled, state)
                ELSE removeTheme(Dom))
  /\ UNCHANGED <<preferences, state, initPc, routeTimers, systemDark>>
  /\ UNCHANGED exceptContent

\* handleMessage, case 'changeMode'.
OnChangeMode ==
  /\ Listening
  /\ \E mode \in {"light", "dark", "auto"} :
       /\ state' = [state EXCEPT !.currentMode =
                      IF mode = "auto" THEN detectSystemTheme(systemDark) ELSE mode]
       /\ Paint(applyThemeIn(Dom, isEnabled, state'))
  /\ UNCHANGED <<isEnabled, preferences, initPc, routeTimers, systemDark>>
  /\ UNCHANGED exceptContent

\* handleMessage, case 'toggleFont'.
OnToggleFont ==
  /\ Listening
  /\ \E mono \in BOOLEAN :
       /\ state' = [state EXCEPT !.useMonospace = mono]
       /\ Paint(applyThemeIn(Dom, isEnabled, state'))
  /\ UNCHANGED <<isEnabled, preferences, initPc, routeTimers, systemDark>>
  /\ UNCHANGED exceptContent

\* handleMessage, case 'changeIntensity' (the intensity in tenths).
OnChangeIntensity ==
  /\ Listening
  /\ \E intensity \in {5, 8} :
       /\ state' = [state EXCEPT !.currentIntensity = intensity]
       /\ Paint(applyThemeIn(Dom, isEnabled, state'))
  /\ UNCHANGED <<isEnabled, preferences, initPc, routeTimers, systemDark>>
  /\ UNCHANGED exceptContent

\* The chrome.storage.onChanged listener, for a change of owl_preferences in
\* the sync area.  When the key was removed newValue is undefined: the
\* listener stores it and throws on preferences.enabled.
OnStorageChanged ==
  /\ Listening
  /\ \E newValue \in Preferences \cup {NoPreferences} :
       /\ preferences' = newValue
       /\ IF newValue = NoPreferences
          THEN UNCHANGED <<isEnabled, state, classes, marker>>
          ELSE /\ isEnabled' = newValue.enabled
               /\ state' = StateOf(newValue, systemDark)
               /\ Paint(IF newValue.enabled
                        THEN applyThemeIn(Dom, TRUE, state')
                        ELSE removeTheme(Dom))
  /\ UNCHANGED <<initPc, routeTimers, systemDark>>
  /\ UNCHANGED exceptContent

\* The system theme changes; the matchMedia listener, once registered,
\* follows it when preferences.mode is 'auto' (and throws when preferences
\* is undefined).
OnSystemThemeChange ==
  /\ systemDark' = ~systemDark
  /\ IF Listening /\ preferences # NoPreferences /\ preferences.mode = "auto"
     THEN /\ state' = [state EXCEPT !.currentMode = detectSystemTheme(systemDark')]
          /\ Paint(applyThemeIn(Dom, isEnabled, state'))
     ELSE UNCHANGED <<state, classes, marker>>
  /\ UNCHANGED <<isEnabled, preferences, initPc, routeTimers>>
  /\ UNCHANGED exceptContent

\* handleRouteChange(routeInfo), called by the SPA detector: if (isEnabled)
\* setTimeout(..., 100).
HandleRouteChange ==
  /\ isEnabled
  /\ routeTimers < MaxRouteTimers
  /\ routeTimers' = routeTimers + 1
  /\ UNCHANGED <<isEnabled, classes, marker, preferences, state, initPc, systemDark>>
  /\ UNCHANGED exceptContent

\* The mutant of the timer: applyTheme() without the site check.
RouteTimerUnchecked ==
  /\ routeTimers > 0
  /\ routeTimers' = routeTimers - 1
  /\ Paint(applyThemeIn(Dom, isEnabled, state))
  /\ UNCHANGED <<isEnabled, preferences, state, initPc, systemDark>>
  /\ UNCHANGED exceptContent

\* The timer of handleRouteChange: applyTheme(), then removeTheme() in the
\* reaction of isSiteAllowed() when the site is not allowed.
RouteTimer ==
  /\ routeTimers > 0
  /\ routeTimers' = routeTimers - 1
  /\ LET d == applyThemeIn(Dom, isEnabled, state)
     IN Paint(IF isSiteAllowed(preferences) THEN d ELSE removeTheme(d))
  /\ UNCHANGED <<isEnabled, preferences, state, initPc, systemDark>>
  /\ UNCHANGED exceptContent

\* The dynamic content handler asks for a re-apply:
\* window.OwlRetroContentScript.applyTheme().
Reapply ==
  /\ Paint(applyThemeIn(Dom, isEnabled, state))
  /\ UNCHANGED <<isEnabled, preferences, state, initPc, routeTimers, systemDark>>
  /\ UNCHANGED exceptContent

\* The script has just run: the state has its initial values, initialize()
\* waits for loadPreferences().
InitContent ==
  /\ InitPipe
  /\ InitScanIdle
  /\ InitFullIdle
  /\ InitColorIdle
  /\ InitHistIdle
  /\ InitHandlerIdle /\ InitStorageIdle
  /\ preferences = NoPreferences
  /\ state = [currentMode |-> "light", useMonospace |-> TRUE,
              currentIntensity |-> 8]
  /\ initPc = "loadPreferences"
  /\ routeTimers = 0
  /\ systemDark \in BOOLEAN

NextContent ==
  \/ PreferencesLoaded
  \/ ThemeCSSLoaded
  \/ DOMContentLoaded
  \/ OnToggle
  \/ OnChangeMode
  \/ OnToggleFont
  \/ OnChangeIntensity
  \/ OnStorageChanged
  \/ OnSystemThemeChange
  \/ HandleRouteChange
  \/ RouteTimer
  \/ Reapply

SpecContent == InitContent /\ [][NextContent]_vars

\* The content script with its timers: a callback given to setTimeout runs.
SpecContentFair == SpecContent /\ WF_vars(RouteTimer)

(***************************************************************************)
(* The popup's mode buttons (service-worker.js) and the content script:    *)
(* the storage event and the changeMode message of one click travel apart. *)
(***************************************************************************)
\* Most changeMode messages, and most storage events, on their way at a time.
MaxInFlight == 2

\* A click on a mode button: preferences.mode = mode; savePreferences()
\* writes chrome.storage.sync, which sends an onChanged event when the value
\* changed; then the changeMode message is sent to the tab.
ClickMode ==
  /\ Len(messages) < MaxInFlight
  /\ Len(storageEvents) < MaxInFlight
  /\ \E mode \in {"light", "dark", "auto"} :
       LET newValue == [syncStore EXCEPT !.mode = mode] IN
         /\ syncStore' = newValue
         /\ storageEvents' = IF newValue # syncStore
                             THEN Append(storageEvents, newValue)
                             ELSE storageEvents
         /\ messages' = Append(messages, mode)
  /\ UNCHANGED <<selectedMode, ops, pipeVars, scanVars, fullVars, colorVars,
                 histVars, contentVars, handlerVars>>

\* The onChanged event reaches the listener of the content script.
StorageEventArrives ==
  /\ storageEvents # <<>>
  /\ LET newValue == Head(storageEvents) IN
       /\ preferences' = newValue
       /\ isEnabled' = newValue.enabled
       /\ state' = StateOf(newValue, systemDark)
       /\ Paint(IF newValue.enabled THEN applyThemeIn(Dom, TRUE, state')
                ELSE removeTheme(Dom))
  /\ storageEvents' = Tail(storageEvents)
  /\ UNCHANGED <<initPc, routeTimers, systemDark, syncStore, messages, selectedMode,
                 ops>>
  /\ UNCHANGED <<style, inDoc, appliedStyles, observer, pendingElements,
                 scheduled, rafQueue, timers, reverted,
                 scanVars, fullVars, colorVars, histVars, handlerVars>>

\* The changeMode message reaches handleMessage.
MessageArrives ==
  /\ messages # <<>>
  /\ LET mode == Head(messages) IN
       /\ state' = [state EXCEPT !.currentMode =
                      IF mode = "auto" THEN detectSystemTheme(systemDark) ELSE mode]
       /\ Paint(applyThemeIn(Dom, isEnabled, state'))
       /\ selectedMode' = mode
  /\ messages' = Tail(messages)
  /\ UNCHANGED <<isEnabled, preferences, initPc, routeTimers, systemDark,
                 syncStore, storageEvents, ops>>
  /\ UNCHANGED <<style, inDoc, appliedStyles, observer, pendingElements,
                 scheduled, rafQueue, timers, reverted,
                 scanVars, fullVars, colorVars, histVars, handlerVars>>

\* initialize() is over on an allowed site with the theme enabled: the
\* script holds the stored preferences and has applied the theme.
InitMode ==
  /\ InitScanIdle
  /\ InitFullIdle /\ InitColorIdle /\ InitHistIdle /\ InitHandlerIdle
  /\ isEnabled = TRUE
  /\ style = InitStyle
  /\ inDoc = [e \in Elems |-> TRUE]
  /\ appliedStyles = [e \in Elems |-> NoSnap]
  /\ observer = Null
  /\ pendingElements = <<>>
  /\ scheduled = FALSE
  /\ rafQueue = <<>>
  /\ timers = <<>>
  /\ reverted = FALSE
  /\ systemDark \in BOOLEAN
  /\ syncStore \in {p \in Preferences :
                      p.enabled /\ p.siteAllowlist = {} /\ p.siteBlocklist = {}}
  /\ preferences = syncStore
  /\ state = StateOf(syncStore, systemDark)
  /\ classes = {ROOT_THEME,
                IF state.currentMode = "dark" THEN THEME_DARK ELSE THEME_LIGHT}
               \cup (IF state.useMonospace THEN {MONOSPACE} ELSE {})
  /\ marker = [e \in Elems |-> IF e = Root THEN state.currentMode ELSE NoMark]
  /\ initPc = "done"
  /\ routeTimers = 0
  /\ storageEvents = <<>>
  /\ messages = <<>>
  /\ selectedMode = syncStore.mode
  /\ ops = [i \in 1..NumOps |-> NoOp]

NextMode ==
  \/ ClickMode
  \/ StorageEventArrives
  \/ MessageArrives
  \/ OnSystemThemeChange

SpecMode == InitMode /\ [][NextMode]_vars

(***************************************************************************)
(* storage.js: the read-modify-write calls on the stored preferences.  A   *)
(* site list is kept as the set of its members.                            *)
(***************************************************************************)
\* { ...DEFAULT_PREFERENCES, ...prefs }
Merge(defaults, prefs) ==
  [k \in DOMAIN defaults \cup DOMAIN prefs |->
     IF k \in DOMAIN prefs THEN prefs[k] ELSE defaults[k]]

\* What the call does to the object getPreferences() gave it.
Modify(op, prefs) ==
  CASE op.fn = "updatePreference" -> [prefs EXCEPT ![op.key] = op.value]
    [] op.fn = "addToAllowlist" ->
         IF op.value \in prefs.siteAllowlist THEN prefs
         ELSE [prefs EXCEPT !.siteAllowlist = @ \cup {op.value},
                            !.siteBlocklist = @ \ {op.value}]
    [] op.fn = "addToBlocklist" ->
         IF op.value \in prefs.siteBlocklist THEN prefs
         ELSE [prefs EXCEPT !.siteBlocklist = @ \cup {op.value},
                            !.siteAllowlist = @ \ {op.value}]

\* The call goes on to setPreferences(prefs).
Writes(op, prefs) ==
  CASE op.fn = "updatePreference" -> TRUE
    [] op.fn = "addToAllowlist" -> op.value \notin prefs.siteAllowlist
    [] op.fn = "addToBlocklist" -> op.value \notin prefs.siteBlocklist

\* The call in place i after getPreferences() returned prefs to it.
AfterGet(i, prefs) ==
  ops' = [ops EXCEPT ![i].prefs = Modify(ops[i], prefs),
                     ![i].pc = IF Writes(ops[i], prefs) THEN "set" ELSE "done"]

\* updatePreference(key, value) is called: it awaits getPreferences().
CallUpdatePreference(i) ==
  /\ ops[i].pc = "idle"
  /\ \E kv \in {<<"mode", "dark">>, <<"mode", "light">>,
                 <<"useMonospace", FALSE>>, <<"enabled", FALSE>>} :
       ops' = [ops EXCEPT ![i] = [fn |-> "updatePreference", key |-> kv[1],
                                  value |-> kv[2], pc |-> "get",
                                  prefs |-> NoPreferences]]
  /\ UNCHANGED <<syncStore, storageEvents, messages, selectedMode>>
  /\ UNCHANGED <<pipeVars, scanVars, fullVars, colorVars, histVars, contentVars,
                 handlerVars>>

\* addToAllowlist(hostname) is called.
CallAddToAllowlist(i) ==
  /\ ops[i].pc = "idle"
  /\ \E hostname \in {Hostname, "elsewhere"} :
       ops' = [ops EXCEPT ![i] = [fn |-> "addToAllowlist", key |-> "siteAllowlist",
                                  value |-> hostname, pc |-> "get",
                                  prefs |-> NoPreferences]]
  /\ UNCHANGED <<syncStore, storageEvents, messages, selectedMode>>
  /\ UNCHANGED <<pipeVars, scanVars, fullVars, colorVars, histVars, contentVars,
                 handlerVars>>

\* addToBlocklist(hostname) is called.
CallAddToBlocklist(i) ==
  /\ ops[i].pc = "idle"
  /\ \E hostname \in {Hostname, "elsewhere"} :
       ops' = [ops EXCEPT ![i] = [fn |-> "addToBlocklist", key |-> "siteBlocklist",
                                  value |-> hostname, pc |-> "get",
                                  prefs |-> NoPreferences]]
  /\ UNCHANGED <<syncStore, storageEvents, messages, selectedMode>>
  /\ UNCHANGED <<pipeVars, scanVars, fullVars, colorVars, histVars, contentVars,
                 handlerVars>>

\* getPreferences(): storage.get answers.  With nothing stored the defaults
\* are written first; otherwise the caller goes on with the merged copy.
GetAnswers(i) ==
  /\ ops[i].pc = "get"
  /\ IF syncStore = NoPreferences
     THEN ops' = [ops EXCEPT ![i].pc = "setDefault"]
     ELSE AfterGet(i, Merge(DefaultPreferences, syncStore))
  /\ UNCHANGED <<syncStore, storageEvents, messages, selectedMode>>
  /\ UNCHANGED <<pipeVars, scanVars, fullVars, colorVars, histVars, contentVars,
                 handlerVars>>

\* getPreferences(): the storage.set of the defaults is carried out and
\* answers.
SetDefaultAnswers(i) ==
  /\ ops[i].pc = "setDefault"
  /\ syncStore' = DefaultPreferences
  /\ AfterGet(i, Merge(DefaultPreferences, DefaultPreferences))
  /\ UNCHANGED <<storageEvents, messages, selectedMode>>
  /\ UNCHANGED <<pipeVars, scanVars, fullVars, colorVars, histVars, contentVars,
                 handlerVars>>

\* setPreferences(prefs): storage.set is carried out and answers.
SetAnswers(i) ==
  /\ ops[i].pc = "set"
  /\ syncStore' = ops[i].prefs
  /\ ops' = [ops EXCEPT ![i].pc = "done"]
  /\ UNCHANGED <<storageEvents, messages, selectedMode>>
  /\ UNCHANGED <<pipeVars, scanVars, fullVars, colorVars, histVars, contentVars,
                 handlerVars>>

\* Nothing or some preferences are stored; no call is under way.
InitStore ==
  /\ InitPipe
  /\ InitScanIdle
  /\ InitFullIdle /\ InitColorIdle /\ InitHistIdle /\ InitContentIdle
  /\ InitHandlerIdle
  /\ syncStore \in {NoPreferences, DefaultPreferences,
                    [DefaultPreferences EXCEPT !.siteAllowlist = {Hostname}],
                    [DefaultPreferences EXCEPT !.siteBlocklist = {"elsewhere"}]}
  /\ storageEvents = <<>>
  /\ messages = <<>>
  /\ selectedMode = "auto"
  /\ ops = [i \in 1..NumOps |-> NoOp]

NextStore ==
  \E i \in 1..NumOps :
    \/ CallUpdatePreference(i)
    \/ CallAddToAllowlist(i)
    \/ CallAddToBlocklist(i)
    \/ GetAnswers(i)
    \/ SetDefaultAnswers(i)
    \/ SetAnswers(i)

SpecStore == InitStore /\ [][NextStore]_vars

(***************************************************************************)
(* storage.js: the site decision of the storage module, next to the one of *)
(* the content script.                                                     *)
(***************************************************************************)
Hosts == {Hostname, "elsewhere", "third"}

DEFAULT_PREFERENCES ==
  [enabled |-> TRUE, mode |-> "auto", useMonospace |-> TRUE, intensity |-> 8,
   siteAllowlist |-> {}, siteBlocklist |-> {}, cacheEnabled |-> TRUE,
   performanceMode |-> "balanced"]

\* What may be stored under owl_preferences: nothing, or an object that
\* has both lists, one of them or none.
StoredPreferences ==
  {NoPreferences}
    \cup [enabled : BOOLEAN]
    \cup [enabled : BOOLEAN, siteBlocklist : SUBSET Hosts]
    \cup [enabled : BOOLEAN, siteAllowlist : SUBSET Hosts]
    \cup [enabled : BOOLEAN, siteAllowlist : SUBSET Hosts,
          siteBlocklist : SUBSET Hosts]

\* { ...DEFAULT_PREFERENCES, ...prefs }
Spread(defaults, prefs) ==
  [f \in DOMAIN defaults \cup DOMAIN prefs |->
     IF f \in DOMAIN prefs THEN prefs[f] ELSE defaults[f]]

getPreferences(stored) ==
  LET prefs == IF stored = NoPreferences THEN DEFAULT_PREFERENCES ELSE stored
  IN Spread(DEFAULT_PREFERENCES, prefs)

\* The mutant of the decision: the allowlist is asked first.
storedAllowlistFirst(stored, hostname) ==
  LET prefs == getPreferences(stored)
  IN IF prefs.siteAllowlist # {} THEN hostname \in prefs.siteAllowlist
     ELSE hostname \notin prefs.siteBlocklist

\* isSiteAllowed(hostname) of storage.js when stored is what storage holds.
storedIsSiteAllowed(stored, hostname) ==
  LET prefs == getPreferences(stored)
  IN IF hostname \in prefs.siteBlocklist THEN FALSE
     ELSE IF prefs.siteAllowlist # {} THEN hostname \in prefs.siteAllowlist
     ELSE TRUE

\* Both versions are asked about the same preferences and hostname.
CallSiteAllowed ==
  /\ call = NoCall
  /\ \E stored \in StoredPreferences, hostname \in Hosts :
       /\ call' = [fn |-> "isSiteAllowed", prefs |-> stored, hostname |-> hostname]
       /\ ret' = [content |-> isSiteAllowedAt(stored, hostname),
                  storage |-> storedIsSiteAllowed(stored, hostname)]
  /\ UNCHANGED steps
  /\ UNCHANGED exceptColor

InitSite == InitPipe /\ InitScanIdle /\ InitExtIdle

NextSite == CallSiteAllowed

SpecSite == InitSite /\ [][NextSite]_vars

(***************************************************************************)
(* dom-analyzer.js, analyzeElements on a tree of elements of any kinds:    *)
(* the incremental pass next to the tree scan.                             *)
(***************************************************************************)
\* element.querySelectorAll('*')
DescendantsOf(e) == {c \in Nodes : Parent(c) = e}

\* SKIP_ELEMENTS.has(element.tagName), element.matches(SKIP_SELECTORS)
Skipped(kinds, e) == kinds[e] \in {"script", "svg", "marked"}

\* The elements analyzeElements calls createPatchPlan for: each element of
\* the list that passes the two tests, and each of its descendants that
\* passes them.
Analyzed(kinds, elements) ==
  UNION { {e} \cup {c \in DescendantsOf(e) : ~Skipped(kinds, c)} :
            e \in {x \in elements : ~Skipped(kinds, x)} }

\* analyzeElements(elements, mode, intensity): the elements of the plans it
\* returns, createPatchPlan answering with a plan or with null.
CallAnalyzeElements ==
  /\ call = NoCall
  /\ \E elements \in SUBSET Nodes :
       /\ call' = [fn |-> "analyzeElements", elements |-> elements]
       /\ \E plans \in SUBSET Analyzed(kindOf, elements) : ret' = plans
  /\ UNCHANGED steps
  /\ UNCHANGED exceptColor

\* The pending elements lie in a document of elements of any kinds.
InitPending ==
  /\ InitPipe
  /\ InitExtIdle
  /\ kindOf \in [Nodes -> Kinds]
  /\ options = DefaultOptions
  /\ filterOf = [n \in Nodes |-> Filter(kindOf[n], options)]
  /\ maxElements = 1
  /\ walker = 0
  /\ count = 0
  /\ processedElements = {}
  /\ pc = "idle"
  /\ hasMore = FALSE
  /\ overBudget = FALSE
  /\ patchPlans = {}

NextPending == CallAnalyzeElements

SpecPending == InitPending /\ [][NextPending]_vars

(***************************************************************************)
(* Properties.                                                             *)
(***************************************************************************)
\* The values the Applier writes.
AppliedValues == {Retro(m) : m \in Modes}

\* Every plan for an element of the document, over any set of properties.
AnyPlans ==
  { [element |-> e, styles |-> [p \in S |-> Retro(m)]] :
      e \in Elems, S \in SUBSET Props, m \in Modes }

\* applyPatchPlans([plan]) run to completion (a deferred call gets the empty
\* rest of the list), whether or not the budget check passes.
ApplyOnce(plan, checks) == ApplyLoop(Dom, <<plan>>, 1, 0, checks).dom

\* C1: Round trip.  For every connected element without snapshot and every
\* plan for it: after applyPatchPlans([plan]) and then revertAllStyles(),
\* every property of the plan has its pre-apply inline value (none, if it
\* had none) and the element does not carry the marker.
C1_RoundTrip ==
  \A plan \in AnyPlans, checks \in {0, 1} :
    (inDoc[plan.element] /\ ~appliedStyles[plan.element].has) =>
      LET e == plan.element
          after == revertAllStyles(ApplyOnce(plan, checks))
      IN /\ \A p \in DOMAIN plan.styles : after.style[e][p].v = style[e][p].v
         /\ after.marker[e] = NoMark
         /\ ~after.store[e].has

\* Witness of C1: element a has been patched and reverted (its color has
\* lost the priority it was loaded with) and has its original values again.
C1_Witness ==
  /\ style["a"]["color"] = [v |-> "red", imp |-> FALSE]
  /\ style["a"]["background-color"].v = InitStyle["a"]["background-color"].v
  /\ marker["a"] = NoMark
  /\ ~appliedStyles["a"].has
  /\ inDoc["a"]

\* The document and the store of a DOM record.
Visible(d) == <<d.style, d.marker, d.classes, d.store>>

\* C2: Revert is idempotent.  In every reachable state a second
\* revertAllStyles() leaves inline styles, markers, root classes and the
\* store as the first left them; and one call changes no inline style of an
\* element that is not marked, not connected or has no snapshot.
C2_RevertIdempotent ==
  LET once == revertAllStyles(Dom)
      twice == revertAllStyles([once EXCEPT !.muts = <<>>])
  IN /\ Visible(twice) = Visible(once)
     /\ \A e \in Elems :
          (marker[e] = NoMark \/ ~inDoc[e] \/ ~appliedStyles[e].has)
            => once.style[e] = style[e]

\* Witness of C2: two connected elements are marked, one of them patched
\* (a call of revertAllStyles changes its style), the other never patched.
C2_Witness ==
  /\ marker["a"] = "true" /\ appliedStyles["a"].has /\ inDoc["a"]
  /\ revertAllStyles(Dom).style["a"] # style["a"]
  /\ marker[Root] # NoMark /\ ~appliedStyles[Root].has

\* C3: A snapshot is taken once.  A step that finds a snapshot for an
\* element and leaves one leaves the same one; a step that creates one
\* stores the inline values the element had before the step.
C3_SnapshotKept ==
  [][\A e \in Elems :
       /\ (appliedStyles[e].has /\ appliedStyles'[e].has)
            => appliedStyles'[e] = appliedStyles[e]
       /\ (~appliedStyles[e].has /\ appliedStyles'[e].has)
            => \A p \in Props : appliedStyles'[e].orig[p] \in {Unsaved, style[e][p].v}
    ]_vars

\* Witness of C3: a second plan, touching a property the first did not, has
\* been applied to a: the snapshot still has the first plan's property only.
C3_Witness ==
  /\ appliedStyles["a"].has
  /\ appliedStyles["a"].orig["color"] = "red"
  /\ appliedStyles["a"].orig["background-color"] = Unsaved
  /\ style["a"]["background-color"].v \in AppliedValues

\* C4 as claimed: every element that carries the marker, the root included,
\* has an entry in the snapshot store.
C4_Claim == \A e \in Elems : marker[e] # NoMark => appliedStyles[e].has

\* C4 amended: every element other than the document root that carries the
\* marker has an entry in the snapshot store.
C4_MarkedHasSnapshot ==
  \A e \in Elems \ {Root} : marker[e] # NoMark => appliedStyles[e].has

\* Witness of C4: a marked element below the root, and the root marked too.
C4_Witness ==
  /\ marker["b"] = "true" /\ appliedStyles["b"].has
  /\ marker[Root] # NoMark

\* C5: Once the theme is disabled and revertAllStyles has run, no step
\* changes an inline style or a marker while the theme stays disabled.
C5_Claim ==
  [][(~isEnabled /\ reverted /\ ~isEnabled') => UNCHANGED <<style, marker>>]_vars

\* No connected element carries the marker or a value the Applier wrote, and
\* the root carries no theme class.
TornDown ==
  /\ classes = {}
  /\ \A e \in Elems :
       inDoc[e] => /\ marker[e] = NoMark
                   /\ \A p \in Props : style[e][p].v \notin AppliedValues

\* C6: After a teardown (a toggle or a storage change with enabled = false,
\* or a route found blocked) the document is torn down.
C6_Claim ==
  [][(((Toggle \/ StorageChanged) /\ ~isEnabled') \/ RouteBlocked) => TornDown']_vars

\* C7: A frame callback takes at most MUTATION_BATCH_SIZE pending elements
\* and every pending element it does not take is pending afterwards.
C7_Claim ==
  [][FlushFrame =>
       /\ Len(BatchOf(pendingElements)) <= MUTATION_BATCH_SIZE
       /\ \A i \in 1..Len(pendingElements) :
            i > MUTATION_BATCH_SIZE => pendingElements[i] \in Range(pendingElements')
    ]_vars

\* C8: Debounce.  At most one frame callback is outstanding, `scheduled`
\* says whether one is, and elements are pending only while one is.
C8_Debounce ==
  /\ Len(rafQueue) <= 1
  /\ scheduled = (rafQueue # <<>>)
  /\ pendingElements # <<>> => scheduled

\* Witness of C8: three observer callbacks have arrived since the frame was
\* requested, and one callback is outstanding.
C8_Witness ==
  /\ Len(pendingElements) = 3
  /\ Len(rafQueue) = 1
  /\ scheduled

\* C9: stopMutationObserver leaves the pending set empty, and a frame
\* callback that runs while no observer is connected applies nothing.
C9_Claim ==
  [][/\ (observer # Null /\ observer' = Null) => pendingElements' = <<>>
     /\ (observer = Null /\ FlushFrame) => UNCHANGED <<style, marker, appliedStyles>>
    ]_vars

\* The accepted elements under the root of the scan.
Acceptable == {n \in Nodes : filterOf[n] = "accept" /\ Reachable(n)}

\* C10: the call returns hasMore = true exactly when an accepted element
\* under the root was not processed by it.
C10_Claim ==
  pc = "done" => (hasMore <=> \E n \in Acceptable : n \notin processedElements)

\* C11: when analyzeFullDOM has returned without the total-time break, every
\* accepted element under document.body was processed by one of its chunks;
\* and the element a chunk is about to process is one that no earlier chunk
\* of the scan processed.
C11_Claim ==
  /\ (fullPc = "returned" /\ ~ceilingHit) => Acceptable \subseteq covered
  /\ (fullPc = "chunk" /\ pc = "body") => walker \notin covered

\* C12: when a run of applyPatchPlans stops on the time budget, the list it
\* hands to its deferred continuation is exactly the plans after the last
\* one it processed, for every input list, lists with invalid plans included.
C12_Claim ==
  \A plans \in PlanLists, checks \in 0..MaxPlans :
    LET r == ApplyLoop(Dom, plans, 1, 0, checks)
    IN r.out = "defer" => TimerOf(plans, r)[1].plans = Slice(plans, r.idx)

\* C13: mapToRetroPalette returns its input unchanged when the input is
\* 'transparent' or 'inherit', when it is unparseable, and when it contains
\* 'gradient' or 'url(', whatever else it contains.
C13_Claim ==
  (/\ call.fn = "mapToRetroPalette"
   /\ \/ call.color \in {<<Word("transparent")>>, <<Word("inherit")>>}
      \/ ~parseColor(call.color).ok
      \/ Includes(call.color, "gradient")
      \/ Includes(call.color, "url("))
    => ret = call.color

\* The palette colors at the least distance from hsl.
Nearest(hsl) ==
  {i \in 1..Len(RETRO_PALETTE) :
     \A j \in 1..Len(RETRO_PALETTE) : Distance2(hsl, i) <= Distance2(hsl, j)}

\* The HSL of the color a call of mapToRetroPalette parsed.
CallHsl ==
  LET rgb == parseColor(call.color) IN rgbToHsl(rgb.r, rgb.g, rgb.b)

\* What mapToRetroPalette returns when palette color i is the closest.
MappedFrom(i) ==
  LET adj == Adjusted(i, call.mode, call.intensity)
      result == hslToRgb(adj.h, adj.s, adj.l, parseColor(call.color).a)
  IN <<Rgba(result.r, result.g, result.b, result.a)>>

\* C14: the result is a function of (color, mode, intensity), and of the
\* palette colors at the least distance the first in palette order is taken.
C14_FirstOfNearest ==
  (call.fn = "mapToRetroPalette" /\ parseColor(call.color).ok) =>
    LET first == CHOOSE i \in Nearest(CallHsl) : \A j \in Nearest(CallHsl) : i <= j
    IN /\ Closest(CallHsl, 1, 0) = first
       /\ ret = MappedFrom(first)

\* A call whose color has two palette colors at the same least distance,
\* which map to different results.
C14_Witness ==
  /\ call.fn = "mapToRetroPalette"
  /\ parseColor(call.color).ok
  /\ \E i, j \in Nearest(CallHsl) : i < j /\ MappedFrom(i) # MappedFrom(j)
  /\ ret = MappedFrom(CHOOSE i \in Nearest(CallHsl) : \A j \in Nearest(CallHsl) : i <= j)

\* The colors with the foreground's hue and saturation and a lightness in
\* 0..100 that reach the ratio against the background.
Reaching(fg, bg, ratio10) ==
  LET hsl == rgbToHsl(fg.r, fg.g, fg.b)
  IN {l \in 0..100 : ContrastAtLeast(hslToRgb(hsl.h, hsl.s, l, 10), bg, ratio10)}

\* C15: ensureContrast returns fg unchanged when a color is unparseable or
\* the ratio is met already; otherwise, when some lightness in 0..100 with
\* fg's hue and saturation reaches the ratio, the returned color reaches it.
C15_Claim ==
  call.fn = "ensureContrast" =>
    LET fg == parseColor(call.fg)
        bg == parseColor(call.bg)
    IN IF ~fg.ok \/ ~bg.ok THEN ret = call.fg
       ELSE IF ContrastAtLeast(fg, bg, call.ratio10) THEN ret = call.fg
       ELSE Reaching(fg, bg, call.ratio10) # {} =>
              ContrastAtLeast(parseColor(ret), bg, call.ratio10)

\* C16: ensureContrast ends after at most 20 lightness steps.
C16_AtMost20Steps == call.fn = "ensureContrast" => steps <= 20

\* A call that cannot reach the ratio and takes all 20 steps.
C16_Witness ==
  /\ call.fn = "ensureContrast"
  /\ steps = 20
  /\ ~ContrastAtLeast(parseColor(ret), parseColor(call.bg), call.ratio10)

\* C17: revertAllStyles always runs to its end.  In every reachable state a
\* call leaves no connected element marked and no theme class on the root;
\* with no marked element it changes no style, marker or snapshot; a marked
\* element without snapshot loses its marker only; an element that is not
\* connected is passed over.
C17_RevertCompletes ==
  LET after == revertAllStyles(Dom)
  IN /\ \A e \in Elems : inDoc[e] => after.marker[e] = NoMark
     /\ after.classes \cap {ROOT_THEME, THEME_LIGHT, THEME_DARK, MONOSPACE} = {}
     /\ MarkedElements(Dom) = <<>> =>
          /\ after.style = style
          /\ after.marker = marker
          /\ after.store = appliedStyles
     /\ \A e \in Elems :
          (inDoc[e] /\ marker[e] # NoMark /\ ~appliedStyles[e].has) =>
            /\ after.style[e] = style[e]
            /\ ~after.store[e].has
     /\ \A e \in Elems :
          ~inDoc[e] =>
            /\ after.style[e] = style[e]
            /\ after.marker[e] = marker[e]
            /\ after.store[e] = appliedStyles[e]

\* Witness of C17: a patched element has been removed from the document, the
\* root is marked without a snapshot and a patched element follows it.
C17_Witness ==
  /\ \E e \in Elems : ~inDoc[e] /\ marker[e] # NoMark /\ appliedStyles[e].has
  /\ marker[Root] # NoMark /\ ~appliedStyles[Root].has
  /\ inDoc["a"] /\ marker["a"] # NoMark /\ appliedStyles["a"].has
  /\ revertAllStyles(Dom).style["a"] # style["a"]

\* No element of the document is marked: revertAllStyles has nothing to undo.
C17_WitnessNone ==
  /\ MarkedElements(Dom) = <<>>
  /\ \E e \in Elems : ~inDoc[e] /\ marker[e] # NoMark

\* C18: once hookHistoryNavigation has been called, however often, a
\* pushState or replaceState first calls the native method once with its
\* argument and then onNavigate once, and a popstate calls onNavigate once.
C18_OneNavigate ==
  (hooks.original /\ trace # <<>>) =>
    \/ trace = <<Event("onNavigate", "")>>
    \/ /\ Len(trace) = 2
       /\ trace[1].ev \in {"pushState", "replaceState"}
       /\ trace[1].url = entries[index]
       /\ trace[2] = Event("onNavigate", "")

\* Witness of C18: after a second call of hookHistoryNavigation the page
\* has pushed an entry.
C18_Witness ==
  /\ hookCalls = 2
  /\ Len(trace) = 2
  /\ trace[1].ev = "pushState"

\* The root element carries no theme class and no data-owl-theme attribute.
RootBare ==
  /\ classes \cap {ROOT_THEME, THEME_LIGHT, THEME_DARK, MONOSPACE} = {}
  /\ marker[Root] = NoMark

\* C19: Blocked site.  Once initialize() is over and no route-change timer
\* is pending: whenever the current preferences block the hostname (it is
\* in siteBlocklist, or siteAllowlist is non-empty and does not contain
\* it), the root carries no theme class and no data-owl-theme attribute.
C19_Claim ==
  (/\ initPc \in {"returned", "done"}
   /\ routeTimers = 0
   /\ ~isSiteAllowed(preferences)) => RootBare

\* C20: Disabled.  Whenever isEnabled is false, the root carries none of
\* the classes owl-retro, owl-retro-light, owl-retro-dark, owl-font and no
\* data-owl-theme attribute.
C20_Claim == ~isEnabled => RootBare

\* Once the listeners of initialize() are registered, a step that ends with
\* isEnabled false ends with a bare root, unless it began with isEnabled
\* false and a root that was not bare.
C20_AfterInit ==
  [][(Listening /\ ~isEnabled' /\ (isEnabled \/ RootBare)) => RootBare']_vars

\* The lists of a stored object, empty where the object has none.
ListOf(stored, f) ==
  IF stored # NoPreferences /\ f \in DOMAIN stored THEN stored[f] ELSE {}

\* C21: Site decision.  isSiteAllowed is false when the hostname is in
\* siteBlocklist, even if it is also in siteAllowlist; otherwise, when
\* siteAllowlist is non-empty, it is true exactly when the hostname is in
\* siteAllowlist; otherwise it is true.  The content-script version and the
\* storage-module version give the same answer.
C21_SiteDecision ==
  call.fn = "isSiteAllowed" =>
    LET block == ListOf(call.prefs, "siteBlocklist")
        allow == ListOf(call.prefs, "siteAllowlist")
        expected == /\ call.hostname \notin block
                    /\ (allow # {} => call.hostname \in allow)
    IN ret.content = expected /\ ret.storage = expected

C21_Witness ==
  /\ call.fn = "isSiteAllowed"
  /\ call.hostname \in ListOf(call.prefs, "siteBlocklist")
  /\ call.hostname \in ListOf(call.prefs, "siteAllowlist")
  /\ ret = [content |-> FALSE, storage |-> FALSE]

\* C22: Chunk bounds.  A call of analyzeDOMChunk processes at most
\* maxElements elements and holds at most one plan per processed element;
\* and once the elapsed time is over MAX_SCAN_TIME_MS, no step of the call
\* processes or plans a further element.
C22_ChunkBounded ==
  /\ [](/\ count <= maxElements
        /\ Cardinality(patchPlans) <= count
        /\ patchPlans \subseteq processedElements)
  /\ [][overBudget => UNCHANGED <<count, processedElements, patchPlans>>]_vars

\* The call has returned after the budget stopped it below maxElements,
\* with elements processed and others left.
C22_Witness ==
  /\ pc = "done"
  /\ overBudget
  /\ count >= 1
  /\ count < maxElements
  /\ Cardinality(patchPlans) < count
  /\ hasMore

\* The elements the skip lists name: by tag, by selector, by the marker.
SkipListed(n) == kindOf[n] \in {"script", "svg", "marked"}

C26_Claim ==
  /\ options.skipProcessed =>
       \A n \in processedElements :
         kindOf[n] # "marked" /\ (Parent(n) # 0 => kindOf[Parent(n)] # "marked")
  /\ (~options.skipProcessed /\ pc = "done" /\ ~overBudget /\ count < maxElements) =>
       \A n \in Nodes :
         /\ (kindOf[n] = "marked" /\ Parent(n) = 0) => n \in processedElements
         /\ (/\ kindOf[n] = "plain" /\ Parent(n) # 0 /\ kindOf[Parent(n)] = "marked")
              => n \in processedElements

\* C24: Same filter.  analyzeElements returns no plan for an element of the
\* skip lists (by tag, selector or marker) nor for an element inside the
\* subtree of one, which the scanner rejects.
C24_Claim ==
  call.fn = "analyzeElements" =>
    \A n \in ret :
      ~SkipListed(n) /\ (Parent(n) # 0 => ~SkipListed(Parent(n)))

\* The values the plan builder keeps: empty, transparent, inherit, initial,
\* and whatever holds a gradient or a url.
Preserved(color) ==
  \/ color \in {<<>>, <<Word("transparent")>>, <<Word("inherit")>>, <<Word("initial")>>}
  \/ \E i \in 1..Len(color) : color[i] \in {Word("linear-gradient("), Word("url(")}

\* C25: Plans.  A plan of createPatchPlan has a non-empty styles map; each
\* property in it carries mapToRetroPalette(computed[p], mode, intensity),
\* which differs from computed[p], and its computed value is not a
\* preserved one; every property left out is preserved or maps to itself;
\* and where no property changes there is no plan.
C25_Plan ==
  call.fn = "createPatchPlan" /\ call.at = 0 =>
    LET computed == ComputedOf(call.color, call.background)
        mapped(p) == mapToRetroPalette(computed[p], call.mode, call.intensity)
        changes(p) == ~Preserved(computed[p]) /\ mapped(p) # computed[p]
    IN IF ret = <<>> THEN \A p \in Props : ~changes(p)
       ELSE /\ DOMAIN ret[1].styles # {}
            /\ DOMAIN ret[1].styles = {p \in Props : changes(p)}
            /\ \A p \in DOMAIN ret[1].styles : ret[1].styles[p] = mapped(p)

\* A plan that holds the one property that changes: the other one's
\* computed value is a color that maps to itself.
C25_Witness ==
  /\ call.fn = "createPatchPlan"
  /\ call.at = 0
  /\ ret # <<>>
  /\ DOMAIN ret[1].styles = {"color"}
  /\ call.background = <<Rgba(221, 123, 110, 5)>>

\* C27: Termination.  A call of analyzeFullDOM returns; it leaves its loop
\* only when the chunk reported hasMore = false or the total time is over
\* the ceiling, and it leaves it at the first reading over the ceiling; what
\* it returns holds the plans of every chunk, the last one included, and no
\* chunk starts after the return.
C27_Terminates ==
  /\ <>(fullPc = "returned")
  /\ [](fullPc = "returned" => (~hasMore \/ elapsed > CeilingTicks))
  /\ [][/\ elapsed' > CeilingTicks => fullPc' = "returned"
        /\ fullPc' = "returned" /\ fullPc # "returned" => chunks' = chunks \cup patchPlans
        /\ fullPc = "returned" => UNCHANGED <<fullPc, chunks, pc>>]_vars

\* The call returned through the ceiling with a chunk that had more, after
\* more than one round, holding plans.
C27_Witness ==
  /\ fullPc = "returned"
  /\ ceilingHit
  /\ hasMore
  /\ elapsed > CeilingTicks
  /\ chunks # {}

\* Twice 2 * hueDelta + |dS| + 0.5 * |dL| between two HSL colors, with
\* hueDelta = min(|dh|, 360 - |dh|).
HueDelta(h1, h2) ==
  IF Abs(h1 - h2) <= 360 - Abs(h1 - h2) THEN Abs(h1 - h2) ELSE 360 - Abs(h1 - h2)

WrappedDistance2(a, b) == 4 * HueDelta(a.h, b.h) + 2 * Abs(a.s - b.s) + Abs(a.l - b.l)

\* C28: Nearest palette color.  For a parseable input the palette color
\* that mapToRetroPalette selects, and that its result is made from, is at
\* the least wrapped distance from the input's HSL among the 7 palette
\* colors; hues 350 and 10 are 20 apart.
C28_Nearest ==
  /\ HueDelta(350, 10) = 20
  /\ (call.fn = "mapToRetroPalette" /\ parseColor(call.color).ok) =>
       LET selected == Closest(CallHsl, 1, 0)
       IN /\ selected \in 1..Len(RETRO_PALETTE)
          /\ \A j \in 1..Len(RETRO_PALETTE) :
               WrappedDistance2(CallHsl, PaletteHsl(selected))
                 <= WrappedDistance2(CallHsl, PaletteHsl(j))
          /\ ret = MappedFrom(selected)

\* A call whose selected palette color is more than 180 degrees of hue away:
\* unwrapped, another palette color would be nearer.
C28_Witness ==
  /\ call.fn = "mapToRetroPalette"
  /\ parseColor(call.color).ok
  /\ LET selected == Closest(CallHsl, 1, 0)
     IN /\ Abs(CallHsl.h - PaletteHsl(selected).h) > 180
        /\ \E j \in 1..Len(RETRO_PALETTE) :
             DistanceUnwrapped2(CallHsl, j) < DistanceUnwrapped2(CallHsl, selected)
        /\ ret = MappedFrom(selected)

\* The palette color mapToRetroPalette selects for a parseable color.
SelectedFor(color) ==
  LET rgb == parseColor(color) IN Closest(rgbToHsl(rgb.r, rgb.g, rgb.b), 1, 0)

\* The parseable inputs that select the palette color of the call and
\* have its alpha.
SameSelection ==
  {c \in CssColors :
     /\ parseColor(c).ok
     /\ parseColor(c).a = parseColor(call.color).a
     /\ SelectedFor(c) = SelectedFor(call.color)}

\* C29: Alpha and selection.  The result of mapToRetroPalette for a
\* parseable input carries the input's alpha, 1 (ten tenths) where the input
\* has none; and every input that selects the same palette color and has the
\* same alpha maps, under the same mode and intensity, to the same result.
C29_AlphaAndSelection ==
  (call.fn = "mapToRetroPalette" /\ parseColor(call.color).ok) =>
    /\ Len(ret) = 1
    /\ ret[1].k = "rgba"
    /\ ret[1].a = parseColor(call.color).a
    /\ (\A t \in 1..Len(call.color) : call.color[t].k # "rgba") => ret[1].a = 10
    /\ \A c \in SameSelection : mapToRetroPalette(c, call.mode, call.intensity) = ret

\* A translucent input, with another input of that alpha and selection.
C29_Witness ==
  /\ call.fn = "mapToRetroPalette"
  /\ parseColor(call.color).ok
  /\ parseColor(call.color).a = 5
  /\ ret[1].a = 5
  /\ \E c \in SameSelection :
       /\ c # call.color
       /\ mapToRetroPalette(c, call.mode, call.intensity) = ret

\* The lightness ensureContrast ends its stepping with, for a call that
\* steps.
FinalLightness ==
  LET fg == parseColor(call.fg)
      bg == parseColor(call.bg)
  IN ContrastLoop(rgbToHsl(fg.r, fg.g, fg.b), bg, call.ratio10,
                  getLuminance(bg.r, bg.g, bg.b) > 5000, 0, FALSE).hsl.l

\* C30: Lightness range.  Where ensureContrast adjusts the foreground, the
\* lightness it ends with is within 0..100 and every channel of the rgba
\* color it returns is within 0..255.
C30_Claim ==
  (/\ call.fn = "ensureContrast"
   /\ parseColor(call.fg).ok
   /\ parseColor(call.bg).ok
   /\ ~ContrastAtLeast(parseColor(call.fg), parseColor(call.bg), call.ratio10)) =>
    /\ FinalLightness \in 0..100
    /\ ret[1].x \in 0..255
    /\ ret[1].y \in 0..255
    /\ ret[1].z \in 0..255

\* C31: Route change.  A route-change signal taken while isEnabled holds
\* leaves a timer behind, and a pending timer runs; the timer's run ends
\* with a bare root when the site is not allowed, and adds no theme class
\* and no marker when isEnabled is false by then.
C31_RouteChange ==
  /\ [][/\ (HandleRouteChange => routeTimers' = routeTimers + 1)
        /\ (routeTimers' < routeTimers /\ ~isSiteAllowed(preferences)) => RootBare'
        /\ (routeTimers' < routeTimers /\ ~isEnabled) =>
             /\ classes' \subseteq classes
             /\ marker'[Root] \in {marker[Root], NoMark}]_vars
  /\ ([]<><<RouteTimer>>_vars \/ <>[](routeTimers = 0))

\* The theme is enabled, the site is not allowed and the root is bare after
\* initialize() went through: a route-change timer took the theme off.
C31_Witness ==
  /\ initPc = "done"
  /\ isEnabled
  /\ ~isSiteAllowed(preferences)
  /\ RootBare
  /\ routeTimers = 0

\* applyPatchPlans([plan1]) and then applyPatchPlans([plan2]), each run to
\* completion.
ApplyTwice(plan1, plan2, checks) ==
  ApplyLoop(ApplyOnce(plan1, checks), <<plan2>>, 1, 0, checks).dom

\* C32: Round trip over several applies.  For every connected element
\* without snapshot and every two plans for it: after applyPatchPlans with
\* the one, applyPatchPlans with the other and then revertAllStyles(), every
\* property of either plan has the inline value it had before the first
\* apply.
C32_Claim ==
  \A plan1 \in AnyPlans, plan2 \in AnyPlans, checks \in {0, 1} :
    (/\ plan1.element = plan2.element
     /\ inDoc[plan1.element]
     /\ ~appliedStyles[plan1.element].has) =>
      LET e == plan1.element
          after == revertAllStyles(ApplyTwice(plan1, plan2, checks))
      IN \A p \in DOMAIN plan1.styles \cup DOMAIN plan2.styles :
           after.style[e][p].v = style[e][p].v

\* C33: One plan per element.  When a chunk of analyzeFullDOM ends, none of
\* the elements it processed was processed by an earlier chunk of the call,
\* and none of its plans is for an element the list has a plan for already.
C33_Claim ==
  [][(fullPc = "chunk" /\ fullPc' # "chunk") =>
       /\ processedElements \cap covered = {}
       /\ patchPlans \cap chunks = {}]_vars

\* C34: The root is scanned.  A call of analyzeDOMChunk that returns without
\* having run over its time budget has processed its root element (node 0,
\* an ordinary visible element), which a plan for the root requires.
C34_Claim ==
  (pc = "done" /\ ~overBudget) => 0 \in processedElements

\* The document after the frame that follows a task which left the document
\* as d, when the batcher was idle before the task and nothing else writes:
\* the observer callback collects the task's records, the frame callback
\* analyzes the batch and applyPatchPlans runs to its end.
AfterOwnFrame(d) ==
  LET pending == AddAll(<<>>, d.muts)
      plans == analyzeElements(d, BatchOf(pending), observer)
  IN ApplyLoop(d, plans, 1, 0, Len(plans)).dom

\* C35: Revert does not retrigger.  With the observer connected and the
\* batcher idle, the frame that follows revertAllStyles() leaves every
\* inline style, every marker and the store as revertAllStyles left them.
C35_Claim ==
  (observer # Null /\ pendingElements = <<>> /\ rafQueue = <<>> /\ timers = <<>>) =>
    LET d == revertAllStyles(Dom)
        after == AfterOwnFrame(d)
    IN /\ after.style = d.style
       /\ after.marker = d.marker
       /\ after.store = d.store

\* The batcher is idle: nothing pending, no frame requested.
BatcherIdle == pendingElements = <<>> /\ ~scheduled /\ rafQueue = <<>>

\* C36: Apply does not retrigger.  The frame that follows a flush, when
\* nothing else writes, collects the records of the flush's writes and
\* leaves every inline style, marker and snapshot as the flush left them;
\* and with the page quiet the batcher becomes idle for good, no timer of
\* applyPatchPlans left.
C36_Quiesces ==
  /\ [](\A checks \in 0..MaxPlans :
          (rafQueue # <<>> /\ pendingElements # <<>> /\ observer # Null) =>
            LET plans == analyzeElements(Dom, BatchOf(pendingElements), Head(rafQueue))
                d == ApplyLoop(Dom, plans, 1, 0, checks).dom
                after == AfterOwnFrame(d)
            IN /\ after.style = d.style
               /\ after.marker = d.marker
               /\ after.store = d.store)
  /\ <>[](BatcherIdle /\ timers = <<>>)

\* A flush has patched element b, which no host call patches, and the
\* batcher is idle again.
C36_Witness ==
  /\ marker["b"] # NoMark
  /\ appliedStyles["b"].has
  /\ observer # Null
  /\ BatcherIdle
  /\ timers = <<>>

\* C37: Restart takes the new mode.  While an observer is connected, the
\* plans the requested frame will compute for the pending elements are the
\* plans of the connected observer's mode, also when the frame was requested
\* before the observer was stopped and started again.
C37_Claim ==
  (observer # Null /\ rafQueue # <<>> /\ pendingElements # <<>>) =>
    analyzeElements(Dom, BatchOf(pendingElements), Head(rafQueue))
      = analyzeElements(Dom, BatchOf(pendingElements), observer)

\* C38: Re-apply does not retrigger.  With the theme enabled, the timer of
\* batchProcessElements leaves no new timer behind when it fires; and once
\* nothing but that timer acts (the page and the host are quiet), the
\* handler comes to rest with no timer pending.
C38_Claim ==
  /\ [][(BatchTimeoutFires /\ isEnabled) => batchTimeout' = <<>>]_vars
  /\ ((<>[][BatchTimeoutFires \/ ApplyTimerFires]_vars) =>
        <>[](batchTimeout = <<>>))

\* C39: Auto only.  Once the content script has handled the changeMode
\* message of the user's latest click and that click selected light or dark,
\* a change of the system color scheme leaves the applied mode (currentMode
\* and the classes of the root) alone, wherever the storage event of the
\* click is.
C39_Claim ==
  [][(/\ systemDark' # systemDark
      /\ messages = <<>>
      /\ selectedMode = syncStore.mode
      /\ selectedMode # "auto") =>
       /\ state'.currentMode = state.currentMode
       /\ classes' = classes]_vars

\* The stored preferences show what the finished call op asked for.
Reflected(op) ==
  /\ syncStore # NoPreferences
  /\ CASE op.fn = "updatePreference" -> syncStore[op.key] = op.value
        [] op.fn = "addToAllowlist" -> op.value \in syncStore.siteAllowlist
        [] op.fn = "addToBlocklist" -> op.value \in syncStore.siteBlocklist

\* Two calls that do not touch the same thing: updatePreference on different
\* keys, or addToAllowlist and addToBlocklist for different hostnames.
Apart(op1, op2) ==
  \/ /\ op1.fn = "updatePreference" /\ op2.fn = "updatePreference"
     /\ op1.key # op2.key
  \/ /\ {op1.fn, op2.fn} = {"addToAllowlist", "addToBlocklist"}
     /\ op1.value # op2.value

\* C40: No lost update.  When two such calls have both completed, the stored
\* preferences reflect both, in whatever order their steps were taken.
C40_Claim ==
  (ops[1].pc = "done" /\ ops[2].pc = "done" /\ Apart(ops[1], ops[2])) =>
    Reflected(ops[1]) /\ Reflected(ops[2])

====
